---- MODULE Spec2Model ----
(***************************************************************************)
(* Model of the playback engine of the playlist manager (src/audio.cpp).   *)
(* One behaviour of Spec is one call of playerWithControls(filename): the  *)
(* opening steps, the decode/output loop with its key dispatch, and the    *)
(* cleanup.  The decoders (mpg123, libsndfile), the output device          *)
(* (PulseAudio), the terminal and the keyboard are the environment: their  *)
(* results are drawn with \E from the outcomes their interfaces can        *)
(* produce.  ClassifierSpec runs the first step of a session on every      *)
(* short file name; TravSpec is one call of a traversal function           *)
(* (sequential, single, reverse, repeat) on a playlist.                    *)
(***************************************************************************)
EXTENDS Integers, Sequences, FiniteSets, TLC

(* ------------------------------ bounds --------------------------------- *)

\* Longest stream, in PCM frames, that a session is run on.
MaxLen == 12

\* Most frames one decode call delivers (the buffer of AUDIO_BUFFER_SIZE
\* units, scaled down to the model's stream lengths).
MaxChunk == 4

\* Highest sample rate, in frames per second.
MaxRate == 1

\* Longest playlist a traversal is run on.
MaxTracks == 3

\* Most rounds a repeat traversal is asked for.
MaxRounds == 2

\* Most times the single-selection traversal asks for a track number.
MaxAsks == 2

\* Longest file name, in characters, the classifier is run on.
MaxNameLen == 5

\* Most nodes one LinkedList holds at a time.
MaxNodes == 3

\* Most songs a playlist of the menu is created or loaded with.
MaxSongs == 2

(* -------------------------- program constants -------------------------- *)

\* Seconds jumped by 'j' and 'k' (OUTPUT_RATE * 10, sfinfo.samplerate * 10).
SeekSeconds == 10

\* mpg123_length() when the length is not known (MPG123_ERR).
Mp3LengthUnknown == -1

\* The value last_percent starts with.
NoPercent == -1

\* std::vector<LinkedList> playlists(3)
NumSlots == 3

(* ------------------------------ helpers -------------------------------- *)

Min(a, b) == IF a < b THEN a ELSE b

Max(a, b) == IF a > b THEN a ELSE b

\* The keys the keyboard can deliver; "x" stands for every key the switch
\* has no case for, "NUL" for the 0 that getch returns when it cannot read.
Keys == {" ", "s", "S", "j", "k", "x"}

NoKey == "none"

NUL == "NUL"

\* File names, as sequences of characters.
FileNames == { <<"s", ".", "M", "p", "3">>, <<"t", ".", "w", "a", "v">> }

\* isMP3File: regex_match(filename, ".*\.[mM][pP]3$").  The whole name has to
\* match; '.' of the pattern matches every character but a line terminator.
LineTerminators == {"\n", "\r"}

isMP3File(name) ==
    /\ Len(name) >= 4
    /\ name[Len(name) - 3] = "."
    /\ name[Len(name) - 2] \in {"m", "M"}
    /\ name[Len(name) - 1] \in {"p", "P"}
    /\ name[Len(name)] = "3"
    /\ \A at \in 1..(Len(name) - 4) : name[at] \notin LineTerminators

\* The terminal's local flags that the session changes.
Cooked == [ICANON |-> TRUE, ECHO |-> TRUE]

\* new_tio.c_lflag &= ~(ICANON | ECHO)
RawOf(tio) == [tio EXCEPT !.ICANON = FALSE, !.ECHO = FALSE]

\* A saved value is <<v>>; a variable that was never written is <<>>.
Uninit == <<>>

Saved(v) == <<v>>

\* Native resources: the mpg123 library (init/exit), the decoder handle
\* (new/delete), the stream opened on it (open/close), the output stream
\* (pa_simple_new/pa_simple_free) and the libsndfile handle (sf_open/sf_close).
Handles == {"lib", "mh", "mhfile", "pa", "sf"}

NoHandles == [h \in Handles |-> [acq |-> 0, rel |-> 0]]

Acquire(hs, h) == [hs EXCEPT ![h].acq = @ + 1]

Release(hs, h) == [hs EXCEPT ![h].rel = @ + 1]

RECURSIVE ReleaseAll(_, _)
ReleaseAll(hs, names) ==
    IF names = <<>> THEN hs
    ELSE ReleaseAll(Release(hs, Head(names)), Tail(names))

(* ------------------------------- state --------------------------------- *)

VARIABLES
    \* the call's input and its environment, fixed for one session
    filename,       \* argument of playerWithControls
    fileExists,     \* whether fopen(filename, "rb") succeeds
    streamLen,      \* frames the decoder can deliver before end-of-stream
    reportedLen,    \* what mpg123_length / sfinfo.frames reports
    seekable,       \* whether the backend can seek in this stream
    rate,           \* OUTPUT_RATE / sfinfo.samplerate
    isTty,          \* whether stdin is a terminal
    term0,          \* terminal configuration when the session starts
    nonblock0,      \* O_NONBLOCK of stdin when the session starts
    \* the process state the session shares with its caller
    term,           \* current terminal configuration
    nonblock,       \* current O_NONBLOCK of stdin
    handles,        \* acquisitions and releases of every native resource
    \* the session
    pc,             \* position in playerWithControls
    result,         \* the value returned
    old_tio,
    old_flags,
    total_frames,
    decPos,         \* the decoder's read position, in frames
    current_frame_pos,
    frames_played,
    last_percent,
    playback_error,
    is_paused,
    should_stop,
    key,            \* the key the last poll consumed
    pressed,        \* the byte the last poll found waiting on stdin
    \* history
    openFailed,     \* an opening step failed
    failure,        \* the decode or output failure that occurred, if any
    did,            \* the calls the last step made on decoder and device
    seeks,          \* resolved targets of the seek requests of the last step
    everDecoded,    \* a decode call was made
    everWritten,    \* a chunk was written to the output device
    termTouched,    \* tcsetattr or fcntl(F_SETFL) was called
    drained,        \* outcome of pa_simple_drain
    seekSinceDraw,  \* a seek request was issued since the last redraw
    readResult,     \* what the decode call of the last step returned
    termLogged,     \* a failed terminal query or set was reported (perror)
    \* the traversal that calls the sessions
    playlist,       \* the songs of the circular list, head to tail
    mode,           \* which traversal function was called
    rounds,         \* argument of playWithControlsRepeat
    n,              \* int n = list.len
    i,              \* the loop counter
    current,        \* node* current / temp: a position of the list, 0 for null
    nodeStack,      \* Stack nodeStack, top first
    userStopped,
    choice,         \* int choice of playWithControlsSingle
    \* history of the traversal
    sessions,       \* list positions the sessions were invoked on, in order
    results,        \* what each of these sessions returned
    prompts,        \* continue-or-abort prompts shown
    aborted,        \* a continue-or-abort prompt was answered with abort
    asks,           \* track-number prompts shown
    rejected,       \* track numbers that were rejected
    pushed,         \* positions pushed on the stack, in push order
    popped,         \* positions popped off the stack, in pop order
    \* one LinkedList object
    heap,           \* the nodes allocated with new node(...), by address
    head,           \* LinkedList::head, 0 for null
    len,            \* LinkedList::len
    call,           \* the member function called last and its arguments
    \* the playlist slots of the menu
    playlists,      \* std::vector<LinkedList> playlists(3)
    menu            \* the main-menu option handled last

env == <<filename, fileExists, streamLen, reportedLen, seekable, rate, isTty,
         term0, nonblock0>>

proc == <<term, nonblock, handles>>

sess == <<old_tio, old_flags, total_frames, decPos, current_frame_pos,
          frames_played, last_percent, playback_error, is_paused, should_stop,
          key, pressed>>

hist == <<openFailed, failure, did, seeks, everDecoded, everWritten,
          termTouched, drained, seekSinceDraw, readResult, termLogged>>

walk == <<playlist, mode, rounds, n, i, current, nodeStack, userStopped,
          choice, sessions, results, prompts, aborted, asks, rejected, pushed,
          popped>>

store == <<heap, head, len, call, playlists, menu>>

\* What a session leaves alone: the traversal that called it and the lists.
trav == <<walk, store>>

vars == <<env, proc, sess, hist, trav, pc, result>>

\* What the length query can report for a stream of so many frames.  mpg123_length
\* gives the length, an estimate that falls short of it when the scan did not
\* go through (the session only warns), or MPG123_ERR when it does not know
\* it; libsndfile reads no further than the sfinfo.frames it reported, so
\* that count is the length.
ReportedLens(name, frames) ==
    IF isMP3File(name) THEN {frames, frames \div 2, Mp3LengthUnknown}
                       ELSE {frames}

\* A null node pointer; the nodes of a list are named by their positions.
NullNode == 0

\* The addresses new node(...) can return.
Addrs == 1..MaxNodes

\* An address that holds no node: never allocated, or deleted.
FreeCell == [live |-> FALSE, song |-> <<>>, artist |-> <<>>, next |-> NullNode]

\* node(s, a, n)
Cell(s, a, nx) == [live |-> TRUE, song |-> s, artist |-> a, next |-> nx]

\* No member function was called yet.
NoCall == [op |-> "none", song |-> <<>>, artist |-> <<>>, pos |-> 0]

\* LinkedList::LinkedList(): head(nullptr), listName(""), len(0),
\* taken(false); the songs of a slot are written head to tail.
EmptySlot == [taken |-> FALSE, listName |-> <<>>, songs |-> <<>>]

\* No menu option was handled yet; slot is the slot Create chose.
NoMenu == [op |-> "none", slot |-> 0]

\* No list object and no slot is in use.
NoStore ==
    /\ heap = [a \in Addrs |-> FreeCell]
    /\ head = NullNode
    /\ len = 0
    /\ call = NoCall
    /\ playlists = [k \in 1..NumSlots |-> EmptySlot]
    /\ menu = NoMenu

\* No traversal is running.
NoWalk ==
    /\ playlist = <<>>
    /\ mode = "none"
    /\ rounds = 0
    /\ n = 0
    /\ i = 0
    /\ current = NullNode
    /\ nodeStack = <<>>
    /\ userStopped = FALSE
    /\ choice = 0
    /\ sessions = <<>>
    /\ results = <<>>
    /\ prompts = 0
    /\ aborted = FALSE
    /\ asks = 0
    /\ rejected = 0
    /\ pushed = <<>>
    /\ popped = <<>>

\* The session was called on its own.
NoTraversal == NoWalk /\ NoStore

Init ==
    /\ NoTraversal
    /\ filename \in FileNames
    /\ fileExists \in BOOLEAN
    /\ streamLen \in {0, MaxChunk - 1, MaxLen}
    /\ reportedLen \in ReportedLens(filename, streamLen)
    /\ seekable \in BOOLEAN
    /\ rate \in 1..MaxRate
    /\ isTty \in BOOLEAN
    /\ term0 \in IF isTty THEN {Cooked, RawOf(Cooked)} ELSE {Cooked}
    /\ nonblock0 \in BOOLEAN
    /\ term = term0
    /\ nonblock = nonblock0
    /\ handles = NoHandles
    /\ pc = "check_file"
    /\ result = -1
    /\ old_tio = Uninit
    /\ old_flags = Uninit
    /\ total_frames = 0
    /\ decPos = 0
    /\ current_frame_pos = 0
    /\ frames_played = 0
    /\ last_percent = NoPercent
    /\ playback_error = FALSE
    /\ is_paused = FALSE
    /\ should_stop = FALSE
    /\ key = NoKey
    /\ pressed = NoKey
    /\ openFailed = FALSE
    /\ failure = "none"
    /\ did = {}
    /\ seeks = <<>>
    /\ everDecoded = FALSE
    /\ everWritten = FALSE
    /\ termTouched = FALSE
    /\ drained = "no"
    /\ seekSinceDraw = FALSE
    /\ readResult = "none"
    /\ termLogged = FALSE

(* --------------------------- opening steps ----------------------------- *)

\* return 1 from an opening step: hs is the resource state after the
\* releases the failing branch performs.
OpenError(hs) ==
    /\ handles' = hs
    /\ openFailed' = TRUE
    /\ result' = 1
    /\ pc' = "returned"
    /\ UNCHANGED <<trav, env, term, nonblock, sess, failure, did, seeks,
                   everDecoded, everWritten, termTouched, drained,
                   seekSinceDraw, readResult, termLogged>>

\* An opening step that succeeded and goes on to the step named next.
OpenStep(hs, next) ==
    /\ handles' = hs
    /\ pc' = next
    /\ UNCHANGED <<trav, env, term, nonblock, sess, hist, result>>

\* An allocation throws (std::bad_alloc): isMP3File's std::regex, the
\* std::vector buffer, getCleanSongName's strings and regex.  Nothing in
\* playerWithControls or player catches, the session is left by the
\* exception with raw pointers and plain structs on the stack: what it
\* acquired and what it set on the terminal stay as they are.
Throw ==
    /\ pc' = "thrown"
    /\ UNCHANGED <<trav, env, proc, sess, hist, result>>

\* fopen/fclose check, then isMP3File, which builds a std::regex on every
\* call and may throw, then the choice of the backend.
CheckFile ==
    /\ pc = "check_file"
    /\ IF ~fileExists
       THEN OpenError(handles)
       ELSE \/ Throw
            \/ OpenStep(handles, IF isMP3File(filename) THEN "mp3_init"
                                                         ELSE "sf_open")

Mp3Init ==
    /\ pc = "mp3_init"
    /\ \E ok \in BOOLEAN :
         IF ok THEN OpenStep(Acquire(handles, "lib"), "mp3_new")
               ELSE OpenError(handles)

Mp3New ==
    /\ pc = "mp3_new"
    /\ \E ok \in BOOLEAN :
         IF ok THEN OpenStep(Acquire(handles, "mh"), "mp3_open")
               ELSE OpenError(Release(handles, "lib"))

Mp3Open ==
    /\ pc = "mp3_open"
    /\ \E ok \in BOOLEAN :
         IF ok THEN OpenStep(Acquire(handles, "mhfile"), "mp3_getformat")
               ELSE OpenError(ReleaseAll(handles, <<"mh", "lib">>))

Mp3GetFormat ==
    /\ pc = "mp3_getformat"
    /\ \E ok \in BOOLEAN :
         IF ok THEN OpenStep(handles, "mp3_format")
               ELSE OpenError(ReleaseAll(handles, <<"mhfile", "mh", "lib">>))

Mp3Format ==
    /\ pc = "mp3_format"
    /\ \E ok \in BOOLEAN :
         IF ok THEN OpenStep(handles, "mp3_pa_new")
               ELSE OpenError(ReleaseAll(handles, <<"mhfile", "mh", "lib">>))

Mp3PaNew ==
    /\ pc = "mp3_pa_new"
    /\ \E ok \in BOOLEAN :
         IF ok THEN OpenStep(Acquire(handles, "pa"), "mp3_raw")
               ELSE OpenError(ReleaseAll(handles, <<"mhfile", "mh", "lib">>))

SfOpen ==
    /\ pc = "sf_open"
    /\ \E ok \in BOOLEAN :
         IF ok THEN OpenStep(Acquire(handles, "sf"), "sf_pa_new")
               ELSE OpenError(handles)

\* SfPaNew placed after the switch to raw mode, its failure branch returning
\* as it does now.
SfPaNewAfterRaw ==
    /\ pc = "sf_pa_new"
    /\ \E ok \in BOOLEAN :
         IF ok THEN OpenStep(Acquire(handles, "pa"), "sf_raw")
         ELSE /\ handles' = Release(handles, "sf")
              /\ openFailed' = TRUE
              /\ result' = 1
              /\ pc' = "returned"
              /\ term' = IF isTty THEN RawOf(term) ELSE term
              /\ nonblock' = TRUE
              /\ termTouched' = TRUE
              /\ UNCHANGED <<trav, env, sess, failure, did, seeks,
                             everDecoded, everWritten, drained,
                             seekSinceDraw, readResult, termLogged>>

SfPaNew ==
    /\ pc = "sf_pa_new"
    /\ \E ok \in BOOLEAN :
         IF ok THEN OpenStep(Acquire(handles, "pa"), "sf_raw")
               ELSE OpenError(Release(handles, "sf"))

(* ------------------------ terminal and keyboard ------------------------ *)

\* tcgetattr/tcsetattr to raw mode, then fcntl(F_GETFL)/fcntl(F_SETFL) to
\* non-blocking.  None of the four results is checked.  On a stdin that is no
\* terminal tcgetattr fails and leaves old_tio unwritten, and tcsetattr fails
\* and changes nothing.
EnterRaw(next) ==
    /\ old_tio' = IF isTty THEN Saved(term) ELSE Uninit
    /\ term' = IF isTty THEN RawOf(term) ELSE term
    /\ old_flags' = Saved(nonblock)
    /\ nonblock' = TRUE
    /\ termTouched' = TRUE
    /\ pc' = next
    /\ UNCHANGED <<trav, env, handles, total_frames, decPos,
                   current_frame_pos, frames_played, last_percent,
                   playback_error, is_paused, should_stop, key, pressed,
                   openFailed, failure, did, seeks, everDecoded, everWritten,
                   drained, seekSinceDraw, readResult, termLogged, result>>

\* tcsetattr(STDIN_FILENO, TCSANOW, &old_tio): the terminal after the call.
RestoredTerm == IF isTty THEN old_tio[1] ELSE term

\* fcntl(STDIN_FILENO, F_SETFL, old_flags): O_NONBLOCK after the call.
RestoredFlags == old_flags[1]

\* getch() for a poll that found the byte k waiting: it saves the terminal
\* configuration, sets ~(ICANON | ECHO) with VMIN 1, reads one byte and puts
\* the saved configuration back, so the terminal is as before; when tcgetattr
\* fails it returns 0 without reading.
getch(k) == IF isTty THEN k ELSE NUL

\* perror("tcgetattr()") in getch: a poll that found a byte waiting on a
\* stdin that is no terminal reports the failed query.
getchReports(k) == k # NoKey /\ ~isTty

\* A loop whose condition is never false.
LoopHeadNoTest(stop, loop, cleanup) == loop

\* A loop that is left whenever its condition is evaluated.
LoopHeadAlwaysExits(stop, loop, cleanup) == cleanup

\* The top of the while loop, reached by falling out of the body or by
\* continue: the loop goes on unless should_stop is set.
LoopHead(stop, loop, cleanup) == IF stop THEN cleanup ELSE loop

(* ------------------------------ progress ------------------------------- *)

\* The percentage counted down from 100.
PercentRemaining(pos, total) ==
    Min(100, Max(0, 100 - (pos * 100) \div total))

\* The percentage without the clamp.
PercentUnclamped(pos, total) == (pos * 100) \div total

\* int percent = (int)((double)pos / total * 100.0), clamped to [0,100].
\* For pos <= total < 40 the double arithmetic gives the integer quotient,
\* and beyond total the clamp decides.
Percent(pos, total) == Min(100, Max(0, (pos * 100) \div total))

\* last_percent after a progress update at position pos.
ProgressUpdate(pos) ==
    IF total_frames > 0 /\ Percent(pos, total_frames) # last_percent
    THEN Percent(pos, total_frames)
    ELSE last_percent

Redrawn(pos) ==
    total_frames > 0 /\ Percent(pos, total_frames) # last_percent

(* ------------------------------ cleanup -------------------------------- *)

\* The statements after the loop: restore terminal and flags, drain unless
\* the session failed or was stopped, release, return.
Cleanup(released) ==
    /\ term' = RestoredTerm
    /\ nonblock' = RestoredFlags
    /\ termTouched' = TRUE
    /\ IF ~playback_error /\ ~should_stop
       THEN \E ok \in BOOLEAN : drained' = IF ok THEN "ok" ELSE "failed"
       ELSE drained' = drained
    /\ handles' = ReleaseAll(handles, released)
    /\ result' = IF playback_error THEN 1 ELSE IF should_stop THEN 2 ELSE 0
    /\ pc' = "returned"
    /\ UNCHANGED <<trav, env, sess, openFailed, failure, did, seeks,
                   everDecoded, everWritten, seekSinceDraw, readResult,
                   termLogged>>

(* ----------------------- frame-coded backend --------------------------- *)

Mp3EnterRaw ==
    /\ pc = "mp3_raw"
    /\ EnterRaw("mp3_prepare")

\* mpg123_scan and mpg123_length, the chunk buffer, the banner, the loop's
\* variables.  A failed scan is a warning only.
Mp3Prepare ==
    /\ pc = "mp3_prepare"
    /\ \/ Throw
       \/ /\ total_frames' = reportedLen
          /\ current_frame_pos' = 0
          /\ last_percent' = NoPercent
          /\ playback_error' = FALSE
          /\ is_paused' = FALSE
          /\ should_stop' = FALSE
          /\ pc' = "mp3_loop"
          /\ UNCHANGED <<trav, env, proc, old_tio, old_flags, decPos,
                         frames_played, key, pressed, hist, result>>

\* off_t jump_frames = OUTPUT_RATE * 10
Mp3JumpFrames == rate * SeekSeconds

\* mpg123_seek_frame(mh, target, SEEK_SET): the decoder's position after the
\* call.  The session treats the value of mpg123_framepos, the argument of
\* mpg123_seek_frame and the value of mpg123_length as positions on one
\* axis; decPos is the decoder's position on that axis.  A stream that
\* cannot seek stays where it is; the return value is not looked at.
Mp3SeekFrame(target) ==
    IF seekable /\ target >= 0 THEN Min(target, streamLen) ELSE decPos

\* case 'j': the target the decoder is asked for.
Mp3BackTarget == Max(0, current_frame_pos - Mp3JumpFrames)

\* case 'k': the target the decoder is asked for.
Mp3ForwardTarget ==
    IF current_frame_pos + Mp3JumpFrames >= total_frames
    THEN total_frames - 1
    ELSE current_frame_pos + Mp3JumpFrames

\* if (kbhit()) { char key = getch(); switch (key) ... } for a poll that found
\* k (NoKey: nothing waiting).
Mp3Dispatch(k) ==
    /\ key' = k
    /\ is_paused' = IF k = " " THEN ~is_paused ELSE is_paused
    /\ should_stop' = IF k \in {"s", "S"} THEN TRUE ELSE should_stop
    /\ IF k = "j" /\ current_frame_pos > 0
       THEN /\ decPos' = Mp3SeekFrame(Mp3BackTarget)
            /\ seeks' = <<Mp3BackTarget>>
       ELSE IF k = "k" /\ total_frames > 0
       THEN /\ decPos' = Mp3SeekFrame(Mp3ForwardTarget)
            /\ seeks' = <<Mp3ForwardTarget>>
       ELSE /\ decPos' = decPos
            /\ seeks' = <<>>
    /\ did' = {"poll"}
    /\ seekSinceDraw' = (seekSinceDraw \/ seeks' # <<>>)
    /\ readResult' = "none"
    /\ pc' = "mp3_body"
    /\ UNCHANGED <<trav, env, proc, old_tio, old_flags, total_frames,
                   current_frame_pos, frames_played, last_percent,
                   playback_error, openFailed, failure, everDecoded,
                   everWritten, termTouched, drained, result>>

Mp3Poll ==
    /\ pc = "mp3_loop"
    /\ \E k \in Keys \cup {NoKey} :
         /\ pressed' = k
         /\ termLogged' = (termLogged \/ getchReports(k))
         /\ Mp3Dispatch(IF k = NoKey THEN NoKey ELSE getch(k))

\* What mpg123_read can return: MPG123_DONE at the end of the stream, a
\* chunk before it, and at any point MPG123_NEW_FORMAT, MPG123_OK with no
\* bytes, or an error code.
Mp3ReadOutcomes ==
    {"new_format", "zero", "err"}
        \cup (IF decPos < streamLen THEN {"ok"} ELSE {"done"})

\* The pause check left out: a paused iteration decodes and writes.
Mp3NeverSkips == FALSE

\* if (is_paused) { usleep(100000); continue; }
Mp3SkipsWhilePaused == is_paused

\* The rest of one loop iteration after the key dispatch.
Mp3Body ==
    /\ pc = "mp3_body"
    /\ key' = NoKey
    /\ pressed' = NoKey
    /\ seeks' = <<>>
    /\ UNCHANGED <<trav, env, proc, old_tio, old_flags, total_frames,
                   frames_played, is_paused, should_stop, openFailed,
                   termTouched, drained, result>>
    /\ IF Mp3SkipsWhilePaused
       THEN /\ did' = {"sleep"}
            /\ readResult' = "none"
            /\ pc' = LoopHead(should_stop, "mp3_loop", "mp3_cleanup")
            /\ UNCHANGED <<decPos, current_frame_pos, last_percent,
                           playback_error, failure, everDecoded, everWritten>>
       ELSE
         /\ everDecoded' = TRUE
         /\ \E r \in Mp3ReadOutcomes :
              \/ /\ r = "done"
                 /\ readResult' = r
                 /\ did' = {"read"}
                 /\ pc' = "mp3_cleanup"
                 /\ UNCHANGED <<decPos, current_frame_pos, last_percent,
                                playback_error, failure, everWritten>>
              \/ /\ r \in {"new_format", "zero"}
                 /\ readResult' = r
                 /\ did' = {"read"}
                 /\ pc' = LoopHead(should_stop, "mp3_loop", "mp3_cleanup")
                 /\ UNCHANGED <<decPos, current_frame_pos, last_percent,
                                playback_error, failure, everWritten>>
              \/ /\ r = "err"
                 /\ readResult' = r
                 /\ did' = {"read"}
                 /\ playback_error' = TRUE
                 /\ failure' = "decode"
                 /\ pc' = "mp3_cleanup"
                 /\ UNCHANGED <<decPos, current_frame_pos, last_percent,
                                everWritten>>
              \/ /\ r = "ok"
                 /\ readResult' = r
                 /\ \E decoded \in 1..Min(MaxChunk, streamLen - decPos) :
                      decPos' = decPos + decoded
                 /\ \E written \in BOOLEAN :
                      IF written
                      THEN /\ everWritten' = TRUE
                           /\ current_frame_pos' = decPos'
                           /\ last_percent' = ProgressUpdate(decPos')
                           /\ did' = {"read", "write"}
                                      \cup (IF Redrawn(decPos') THEN {"redraw"}
                                                                ELSE {})
                           /\ pc' = LoopHead(should_stop, "mp3_loop",
                                             "mp3_cleanup")
                           /\ UNCHANGED <<playback_error, failure>>
                      ELSE /\ playback_error' = TRUE
                           /\ failure' = "write"
                           /\ did' = {"read", "write"}
                           /\ pc' = "mp3_cleanup"
                           /\ UNCHANGED <<current_frame_pos, last_percent,
                                          everWritten>>
    /\ seekSinceDraw' = (seekSinceDraw /\ "redraw" \notin did')
    /\ termLogged' = termLogged

Mp3Cleanup ==
    /\ pc = "mp3_cleanup"
    /\ Cleanup(<<"pa", "mhfile", "mh", "lib">>)

(* ----------------------- sample-coded backend -------------------------- *)

SfEnterRaw ==
    /\ pc = "sf_raw"
    /\ EnterRaw("sf_prepare")

\* The duration, the chunk buffer, the banner, the loop's variables.
SfPrepare ==
    /\ pc = "sf_prepare"
    /\ \/ Throw
       \/ /\ total_frames' = reportedLen
          /\ frames_played' = 0
          /\ current_frame_pos' = 0
          /\ last_percent' = NoPercent
          /\ playback_error' = FALSE
          /\ is_paused' = FALSE
          /\ should_stop' = FALSE
          /\ pc' = "sf_loop"
          /\ UNCHANGED <<trav, env, proc, old_tio, old_flags, decPos, key,
                         pressed, hist, result>>

\* sf_count_t jump_frames = sfinfo.samplerate * 10
SfJumpFrames == rate * SeekSeconds

\* sf_seek resolved to the absolute frame target, from position pos: the
\* value returned and the decoder's position after the call.  libsndfile
\* refuses (-1, position kept) a stream that cannot seek and a target outside
\* [0, frames], frames being the count it reported in sfinfo.
sf_seek(pos, target) ==
    IF seekable /\ target >= 0 /\ target <= reportedLen
    THEN [ret |-> target, pos |-> target]
    ELSE [ret |-> -1, pos |-> pos]

\* current_frame_pos = sf_seek(sndfile, offset, SEEK_CUR);
\* if (current_frame_pos < 0) { sf_seek(sndfile, 0, SEEK_SET);
\*                              current_frame_pos = 0; }
\* frames_played = current_frame_pos;
SfJump(offset) ==
    LET first == sf_seek(decPos, decPos + offset)
        second == sf_seek(first.pos, 0)
    IN  IF first.ret < 0
        THEN /\ decPos' = second.pos
             /\ current_frame_pos' = 0
             /\ frames_played' = 0
             /\ seeks' = <<decPos + offset, 0>>
        ELSE /\ decPos' = first.pos
             /\ current_frame_pos' = first.ret
             /\ frames_played' = first.ret
             /\ seeks' = <<decPos + offset>>

\* The switch with a default case that toggles the pause.
SfDispatchDefaultPauses(k) ==
    /\ key' = k
    /\ is_paused' = IF k \notin {"s", "S", "j", "k", NoKey}
                    THEN ~is_paused ELSE is_paused
    /\ should_stop' = IF k \in {"s", "S"} THEN TRUE ELSE should_stop
    /\ IF k = "j" THEN SfJump(-SfJumpFrames)
       ELSE IF k = "k" THEN SfJump(SfJumpFrames)
       ELSE /\ seeks' = <<>>
            /\ UNCHANGED <<decPos, current_frame_pos, frames_played>>
    /\ did' = {"poll"}
    /\ seekSinceDraw' = (seekSinceDraw \/ seeks' # <<>>)
    /\ readResult' = "none"
    /\ pc' = "sf_body"
    /\ UNCHANGED <<trav, env, proc, old_tio, old_flags, total_frames,
                   last_percent, playback_error, openFailed, failure,
                   everDecoded, everWritten, termTouched, drained, result>>

SfDispatch(k) ==
    /\ key' = k
    /\ is_paused' = IF k = " " THEN ~is_paused ELSE is_paused
    /\ should_stop' = IF k \in {"s", "S"} THEN TRUE ELSE should_stop
    /\ IF k = "j" THEN SfJump(-SfJumpFrames)
       ELSE IF k = "k" THEN SfJump(SfJumpFrames)
       ELSE /\ seeks' = <<>>
            /\ UNCHANGED <<decPos, current_frame_pos, frames_played>>
    /\ did' = {"poll"}
    /\ seekSinceDraw' = (seekSinceDraw \/ seeks' # <<>>)
    /\ readResult' = "none"
    /\ pc' = "sf_body"
    /\ UNCHANGED <<trav, env, proc, old_tio, old_flags, total_frames,
                   last_percent, playback_error, openFailed, failure,
                   everDecoded, everWritten, termTouched, drained, result>>

SfPoll ==
    /\ pc = "sf_loop"
    /\ \E k \in Keys \cup {NoKey} :
         /\ pressed' = k
         /\ termLogged' = (termLogged \/ getchReports(k))
         /\ SfDispatch(IF k = NoKey THEN NoKey ELSE getch(k))

\* What sf_readf_short can return: frames before the end of the stream, 0 at
\* the end, and 0 as well when the read fails (sf_error is then set, which the
\* session does not look at).
SfReadOutcomes ==
    {"error"} \cup (IF decPos < streamLen THEN {"frames"} ELSE {"eof"})

\* The pause check left out.
SfNeverSkips == FALSE

\* if (is_paused) { usleep(100000); continue; }
SfSkipsWhilePaused == is_paused

\* The rest of one loop iteration after the key dispatch.
SfBody ==
    /\ pc = "sf_body"
    /\ key' = NoKey
    /\ pressed' = NoKey
    /\ seeks' = <<>>
    /\ UNCHANGED <<trav, env, proc, old_tio, old_flags, total_frames, is_paused,
                   should_stop, openFailed, termTouched, drained, result>>
    /\ IF SfSkipsWhilePaused
       THEN /\ did' = {"sleep"}
            /\ readResult' = "none"
            /\ pc' = LoopHead(should_stop, "sf_loop", "sf_cleanup")
            /\ UNCHANGED <<decPos, current_frame_pos, frames_played,
                           last_percent, playback_error, failure, everDecoded,
                           everWritten>>
       ELSE
         /\ everDecoded' = TRUE
         /\ \E r \in SfReadOutcomes :
              \/ /\ r \in {"eof", "error"}
                 /\ readResult' = r
                 /\ failure' = IF r = "error" THEN "decode" ELSE failure
                 /\ did' = {"read"}
                 /\ pc' = "sf_cleanup"
                 /\ UNCHANGED <<decPos, current_frame_pos, frames_played,
                                last_percent, playback_error, everWritten>>
              \/ /\ r = "frames"
                 /\ readResult' = r
                 /\ \E frames_read \in 1..Min(MaxChunk, streamLen - decPos) :
                      /\ decPos' = decPos + frames_read
                      /\ \E written \in BOOLEAN :
                           IF written
                           THEN /\ everWritten' = TRUE
                                /\ frames_played' = frames_played + frames_read
                                /\ current_frame_pos' =
                                       sf_seek(decPos', decPos').ret
                                /\ last_percent' =
                                       ProgressUpdate(frames_played')
                                /\ did' = {"read", "write"}
                                       \cup (IF Redrawn(frames_played')
                                             THEN {"redraw"} ELSE {})
                                /\ pc' = LoopHead(should_stop, "sf_loop",
                                                  "sf_cleanup")
                                /\ UNCHANGED <<playback_error, failure>>
                           ELSE /\ playback_error' = TRUE
                                /\ failure' = "write"
                                /\ did' = {"read", "write"}
                                /\ pc' = "sf_cleanup"
                                /\ UNCHANGED <<current_frame_pos,
                                               frames_played, last_percent,
                                               everWritten>>
    /\ seekSinceDraw' = (seekSinceDraw /\ "redraw" \notin did')
    /\ termLogged' = termLogged

SfCleanup ==
    /\ pc = "sf_cleanup"
    /\ Cleanup(<<"pa", "sf">>)

Next ==
    \/ CheckFile
    \/ Mp3Init
    \/ Mp3New
    \/ Mp3Open
    \/ Mp3GetFormat
    \/ Mp3Format
    \/ Mp3PaNew
    \/ Mp3EnterRaw
    \/ Mp3Prepare
    \/ Mp3Poll
    \/ Mp3Body
    \/ Mp3Cleanup
    \/ SfOpen
    \/ SfPaNew
    \/ SfEnterRaw
    \/ SfPrepare
    \/ SfPoll
    \/ SfBody
    \/ SfCleanup

Spec == Init /\ [][Next]_vars

\* The session is a sequential program that is never suspended for good:
\* whenever it has a next statement, that statement is eventually executed.
LiveSpec == Init /\ [][Next]_vars /\ WF_vars(Next)

(* ------------------------------- player -------------------------------- *)
(* One behaviour of PlayerSpec is one call of player(filename).  Its       *)
(* opening steps are those of playerWithControls, statement for statement, *)
(* and so is its whole sample-coded branch, keys included; its frame-coded *)
(* branch has no terminal setup and no keys.                               *)

PlayerMp3PaNew ==
    /\ pc = "mp3_pa_new"
    /\ \E ok \in BOOLEAN :
         IF ok THEN OpenStep(Acquire(handles, "pa"), "pmp3_prepare")
               ELSE OpenError(ReleaseAll(handles, <<"mhfile", "mh", "lib">>))

\* mpg123_scan and mpg123_length, the chunk buffer, the banner, the loop's
\* variables.
PlayerMp3Prepare ==
    /\ pc = "pmp3_prepare"
    /\ \/ Throw
       \/ /\ total_frames' = reportedLen
          /\ current_frame_pos' = 0
          /\ last_percent' = NoPercent
          /\ playback_error' = FALSE
          /\ pc' = "pmp3_body"
          /\ UNCHANGED <<trav, env, proc, old_tio, old_flags, decPos,
                         frames_played, is_paused, should_stop, key, pressed,
                         hist, result>>

\* One iteration of while (true).
PlayerMp3Body ==
    /\ pc = "pmp3_body"
    /\ everDecoded' = TRUE
    /\ UNCHANGED <<trav, env, proc, old_tio, old_flags, total_frames,
                   frames_played, is_paused, should_stop, key, pressed,
                   openFailed, seeks, termTouched, drained, termLogged,
                   result>>
    /\ \E r \in Mp3ReadOutcomes :
         /\ readResult' = r
         /\ \/ /\ r = "done"
               /\ did' = {"read"}
               /\ pc' = "pmp3_cleanup"
               /\ UNCHANGED <<decPos, current_frame_pos, last_percent,
                              playback_error, failure, everWritten>>
            \/ /\ r \in {"new_format", "zero"}
               /\ did' = {"read"}
               /\ pc' = "pmp3_body"
               /\ UNCHANGED <<decPos, current_frame_pos, last_percent,
                              playback_error, failure, everWritten>>
            \/ /\ r = "err"
               /\ did' = {"read"}
               /\ playback_error' = TRUE
               /\ failure' = "decode"
               /\ pc' = "pmp3_cleanup"
               /\ UNCHANGED <<decPos, current_frame_pos, last_percent,
                              everWritten>>
            \/ /\ r = "ok"
               /\ \E decoded \in 1..Min(MaxChunk, streamLen - decPos) :
                    decPos' = decPos + decoded
               /\ \E written \in BOOLEAN :
                    IF written
                    THEN /\ everWritten' = TRUE
                         /\ current_frame_pos' = decPos'
                         /\ last_percent' = ProgressUpdate(decPos')
                         /\ did' = {"read", "write"}
                                    \cup (IF Redrawn(decPos') THEN {"redraw"}
                                                              ELSE {})
                         /\ pc' = "pmp3_body"
                         /\ UNCHANGED <<playback_error, failure>>
                    ELSE /\ playback_error' = TRUE
                         /\ failure' = "write"
                         /\ did' = {"read", "write"}
                         /\ pc' = "pmp3_cleanup"
                         /\ UNCHANGED <<current_frame_pos, last_percent,
                                        everWritten>>
    /\ seekSinceDraw' = (seekSinceDraw /\ "redraw" \notin did')

\* The statements after the loop: drain unless the playback failed, release,
\* return.
PlayerMp3Cleanup ==
    /\ pc = "pmp3_cleanup"
    /\ IF ~playback_error
       THEN \E ok \in BOOLEAN : drained' = IF ok THEN "ok" ELSE "failed"
       ELSE drained' = drained
    /\ handles' = ReleaseAll(handles, <<"pa", "mhfile", "mh", "lib">>)
    /\ result' = IF playback_error THEN 1 ELSE 0
    /\ pc' = "returned"
    /\ UNCHANGED <<trav, env, term, nonblock, sess, openFailed, failure, did,
                   seeks, everDecoded, everWritten, termTouched,
                   seekSinceDraw, readResult, termLogged>>

PlayerNext ==
    \/ CheckFile
    \/ Mp3Init
    \/ Mp3New
    \/ Mp3Open
    \/ Mp3GetFormat
    \/ Mp3Format
    \/ PlayerMp3PaNew
    \/ PlayerMp3Prepare
    \/ PlayerMp3Body
    \/ PlayerMp3Cleanup
    \/ SfOpen
    \/ SfPaNew
    \/ SfEnterRaw
    \/ SfPrepare
    \/ SfPoll
    \/ SfBody
    \/ SfCleanup

PlayerSpec == Init /\ [][PlayerNext]_vars

(* ----------------------------- classifier ------------------------------ *)
(* One behaviour of ClassifierSpec is the first step of a session, which   *)
(* classifies the file name it was given and picks the backend.            *)

\* The characters file names are made of: letters and digits of the
\* extension in both cases, the dot, another letter, and a line terminator.
NameChars == {"a", ".", "m", "M", "p", "P", "3", "\n"}

\* Every file name of up to MaxNameLen characters.
Names == UNION { [1..size -> NameChars] : size \in 0..MaxNameLen }

ClassifierInit ==
    /\ NoTraversal
    /\ filename \in Names
    /\ fileExists \in BOOLEAN
    /\ streamLen = 0
    /\ reportedLen = 0
    /\ seekable = FALSE
    /\ rate = 1
    /\ isTty = FALSE
    /\ term0 = Cooked
    /\ nonblock0 = FALSE
    /\ term = term0
    /\ nonblock = nonblock0
    /\ handles = NoHandles
    /\ pc = "check_file"
    /\ result = -1
    /\ old_tio = Uninit
    /\ old_flags = Uninit
    /\ total_frames = 0
    /\ decPos = 0
    /\ current_frame_pos = 0
    /\ frames_played = 0
    /\ last_percent = NoPercent
    /\ playback_error = FALSE
    /\ is_paused = FALSE
    /\ should_stop = FALSE
    /\ key = NoKey
    /\ pressed = NoKey
    /\ openFailed = FALSE
    /\ failure = "none"
    /\ did = {}
    /\ seeks = <<>>
    /\ everDecoded = FALSE
    /\ everWritten = FALSE
    /\ termTouched = FALSE
    /\ drained = "no"
    /\ seekSinceDraw = FALSE
    /\ readResult = "none"
    /\ termLogged = FALSE

ClassifierNext == CheckFile

ClassifierSpec == ClassifierInit /\ [][ClassifierNext]_vars

(* ----------------------------- traversals ------------------------------ *)
(* One behaviour of TravSpec is one call of a traversal function on a      *)
(* playlist.  A session is one step of it: what playerWithControls does    *)
(* inside is the subject of Spec, its caller sees the value it returns.    *)

Modes == {"sequential", "single", "reverse", "repeat"}

\* The playlists a traversal is run on: up to MaxTracks songs.
Playlists == UNION { [1..size -> FileNames] : size \in 0..MaxTracks }

\* list.head
ListHead == IF playlist = <<>> THEN NullNode ELSE 1

\* The list with next of the last node left null instead of pointing to head.
NextNodeNoWrap(p) == IF p = Len(playlist) THEN NullNode ELSE p + 1

\* p->next: the list is circular, the last node points back to the head.
NextNode(p) == IF p = Len(playlist) THEN 1 ELSE p + 1

\* A stack that adds the new item below the others.
pushBottom(st, item) == st \o <<item>>

\* Stack::push
push(st, item) == <<item>> \o st

\* Stack::pop: the item returned (null on an empty stack) and the stack left.
pop(st) ==
    IF st = <<>> THEN [item |-> NullNode, stack |-> st]
                 ELSE [item |-> Head(st), stack |-> Tail(st)]

\* Stack::isEmpty
isEmpty(st) == st = <<>>

\* do { nodeStack.push(temp); temp = temp->next; } while (temp != list.head);
\* the stack and the order of the pushes when the loop is left.
RECURSIVE PushNodes(_, _, _)
PushNodes(st, order, temp) ==
    LET st1 == push(st, temp)
        order1 == Append(order, temp)
    IN  IF NextNode(temp) # ListHead
        THEN PushNodes(st1, order1, NextNode(temp))
        ELSE [stack |-> st1, order |-> order1]

\* for (int i = 1; i < choice; i++) current = current->next;
RECURSIVE Walk(_, _)
Walk(node, steps) ==
    IF steps <= 0 THEN node ELSE Walk(NextNode(node), steps - 1)

\* The values playerWithControls returns.
PlayerResults == {0, 1, 2}

\* What std::cin >> choice can put into the char of the continue prompt; when
\* the read fails the char is left indeterminate, which is one of these too.
Answers == {"Y", "y", "N", "n"}

\* std::toupper
toupper(c) == IF c = "y" THEN "Y" ELSE IF c = "n" THEN "N" ELSE c

\* What std::cin >> choice meets at the track-number prompt: a number, text
\* that is no number, or the end of the input.
Inputs ==
    [kind : {"number"}, val : (-1)..(MaxTracks + 1)]
        \cup [kind : {"junk", "eof"}, val : {0}]

\* The stream is good after std::cin >> choice.
Extracted(input) == input.kind = "number"

\* choice after std::cin >> choice: a failed extraction stores 0, at the end
\* of the input nothing is stored.
ChoiceAfter(input) ==
    IF input.kind = "number" THEN input.val
    ELSE IF input.kind = "junk" THEN 0
    ELSE choice

\* The range test with 0 let through.
InRangeFromZero(c) == c >= 0 /\ c <= Len(playlist)

\* choice >= 1 && choice <= li.len
InRange(c) == c >= 1 /\ c <= Len(playlist)

\* A result of 2 taken for success.
StopsOnAbortOnly(r, c) == r # 2 /\ r # 0 /\ toupper(c) # "Y"

\* if (result == 2) return/break;
\* else if (result != 0) { ask; if (toupper(choice) != 'Y') return/break; }
\* whether the traversal ends after a session that returned r, the prompt, if
\* one is shown, being answered with c.
Stops(r, c) == r = 2 \/ (r # 0 /\ toupper(c) # "Y")

\* The prompt is shown after a result that is neither 2 nor 0.
Prompted(r) == r # 2 /\ r # 0

\* The parts of the state a traversal step leaves alone.
sessionRest == <<fileExists, streamLen, reportedLen, seekable, rate, isTty,
                 term0, nonblock0, sess, hist, store>>

TravInit ==
    /\ NoStore
    /\ playlist \in Playlists
    /\ mode \in Modes
    /\ rounds \in IF mode = "repeat" THEN (-1)..MaxRounds ELSE {0}
    /\ n = 0
    /\ i = 0
    /\ current = NullNode
    /\ nodeStack = <<>>
    /\ userStopped = FALSE
    /\ choice = 0
    /\ sessions = <<>>
    /\ results = <<>>
    /\ prompts = 0
    /\ aborted = FALSE
    /\ asks = 0
    /\ rejected = 0
    /\ pushed = <<>>
    /\ popped = <<>>
    /\ filename = <<>>
    /\ fileExists = FALSE
    /\ streamLen = 0
    /\ reportedLen = 0
    /\ seekable = FALSE
    /\ rate = 1
    /\ isTty \in BOOLEAN
    /\ term0 = Cooked
    /\ nonblock0 = FALSE
    /\ term = term0
    /\ nonblock = nonblock0
    /\ handles = NoHandles
    /\ pc = "trav_entry"
    /\ result = -1
    /\ old_tio = Uninit
    /\ old_flags = Uninit
    /\ total_frames = 0
    /\ decPos = 0
    /\ current_frame_pos = 0
    /\ frames_played = 0
    /\ last_percent = NoPercent
    /\ playback_error = FALSE
    /\ is_paused = FALSE
    /\ should_stop = FALSE
    /\ key = NoKey
    /\ pressed = NoKey
    /\ openFailed = FALSE
    /\ failure = "none"
    /\ did = {}
    /\ seeks = <<>>
    /\ everDecoded = FALSE
    /\ everWritten = FALSE
    /\ termTouched = FALSE
    /\ drained = "no"
    /\ seekSinceDraw = FALSE
    /\ readResult = "none"
    /\ termLogged = FALSE

\* int result = playerWithControls(songPath) on the node at position node,
\* returning r, and the prompt that follows an error, answered with c.
PlayTrack(node, r, c) ==
    /\ filename' = playlist[node]
    /\ result' = r
    /\ sessions' = Append(sessions, node)
    /\ results' = Append(results, r)
    /\ prompts' = IF Prompted(r) THEN prompts + 1 ELSE prompts
    /\ aborted' = (aborted \/ (Prompted(r) /\ toupper(c) # "Y"))
    /\ UNCHANGED proc

\* A step of a traversal that calls no session.
NoTrack ==
    UNCHANGED <<filename, result, sessions, results, prompts, aborted, proc>>

\* What a session holds when its chunk buffer or its banner throws: every
\* handle of its backend.
HeldAtPrepare(name) ==
    IF isMP3File(name)
    THEN Acquire(Acquire(Acquire(Acquire(handles, "lib"), "mh"), "mhfile"),
                 "pa")
    ELSE Acquire(Acquire(handles, "sf"), "pa")

\* An allocation throws (std::bad_alloc) in the iteration that plays the
\* node at position node: in the traversal's own std::string songPath or
\* getCleanSongName, before the session is called; in the session's
\* isMP3File, before anything was acquired; or in the session's buffer and
\* banner, with the backend's handles held, the terminal raw and stdin
\* non-blocking.  No traversal catches: it is left with the session, no
\* value is returned, no prompt shown, no further track played.
TrackThrows(node) ==
    /\ pc' = "thrown"
    /\ UNCHANGED <<result, results, prompts, aborted>>
    /\ \E at \in {"names", "classify", "prepare"} :
         /\ IF at = "names"
            THEN UNCHANGED <<filename, sessions>>
            ELSE /\ filename' = playlist[node]
                 /\ sessions' = Append(sessions, node)
         /\ IF at = "prepare"
            THEN /\ term' = IF isTty THEN RawOf(term) ELSE term
                 /\ nonblock' = TRUE
                 /\ handles' = HeldAtPrepare(playlist[node])
            ELSE UNCHANGED proc


\* playWithControls with the walk started at the second node.
PlayWithControlsEnterAtSecond ==
    /\ pc = "trav_entry"
    /\ mode = "sequential"
    /\ IF ListHead = NullNode
       THEN /\ pc' = "trav_done"
            /\ UNCHANGED <<n, current>>
       ELSE /\ n' = Len(playlist)
            /\ current' = NextNode(ListHead)
            /\ pc' \in {"seq_loop", "thrown"}
    /\ NoTrack
    /\ UNCHANGED <<sessionRest, playlist, mode, rounds, i, nodeStack,
                   userStopped, choice, asks, rejected, pushed, popped>>

\* playWithControls up to its loop.  The banner copies list.listName into a
\* temporary std::string, an allocation that may throw: the traversal is
\* then left before its first iteration.
PlayWithControlsEnter ==
    /\ pc = "trav_entry"
    /\ mode = "sequential"
    /\ IF ListHead = NullNode
       THEN /\ pc' = "trav_done"
            /\ UNCHANGED <<n, current>>
       ELSE /\ n' = Len(playlist)
            /\ current' = ListHead
            /\ pc' \in {"seq_loop", "thrown"}
    /\ NoTrack
    /\ UNCHANGED <<sessionRest, playlist, mode, rounds, i, nodeStack,
                   userStopped, choice, asks, rejected, pushed, popped>>

\* One iteration of the for loop of playWithControls, the test that follows
\* it included.
PlayWithControlsTrack ==
    /\ pc = "seq_loop"
    /\ IF current = NullNode
       THEN /\ pc' = "trav_done"
            /\ NoTrack
            /\ UNCHANGED <<i, current>>
       ELSE \/ /\ TrackThrows(current)
               /\ UNCHANGED <<i, current>>
            \/ \E r \in PlayerResults, c \in Answers :
                 /\ PlayTrack(current, r, c)
                 /\ IF Stops(r, c)
                    THEN /\ pc' = "trav_done"
                         /\ UNCHANGED <<i, current>>
                    ELSE /\ current' = NextNode(current)
                         /\ i' = i + 1
                         /\ pc' = IF i + 1 < n THEN "seq_loop"
                                               ELSE "trav_done"
    /\ UNCHANGED <<sessionRest, playlist, mode, rounds, n, nodeStack,
                   userStopped, choice, asks, rejected, pushed, popped>>

\* playWithControlsSingle up to its first prompt.  The banner's copy of
\* li.listName and the getCleanSongName and substr calls of li.display()
\* allocate and may throw.
PlayWithControlsSingleEnter ==
    /\ pc = "trav_entry"
    /\ mode = "single"
    /\ pc' \in IF ListHead = NullNode THEN {"trav_done"}
                                       ELSE {"single_ask", "thrown"}
    /\ NoTrack
    /\ UNCHANGED <<sessionRest, playlist, mode, rounds, n, i, current,
                   nodeStack, userStopped, choice, asks, rejected, pushed,
                   popped>>

\* One iteration of the while (true) loop that asks for the track number.
PlayWithControlsSingleAsk ==
    /\ pc = "single_ask"
    /\ asks < MaxAsks
    /\ \E input \in Inputs :
         /\ asks' = asks + 1
         /\ choice' = ChoiceAfter(input)
         /\ IF Extracted(input) /\ InRange(choice')
            THEN /\ pc' = "single_play"
                 /\ rejected' = rejected
            ELSE /\ pc' = "single_ask"
                 /\ rejected' = rejected + 1
    /\ NoTrack
    /\ UNCHANGED <<sessionRest, playlist, mode, rounds, n, i, current,
                   nodeStack, userStopped, pushed, popped>>

\* The walk to the chosen node and the session on it; the value the session
\* returns is not looked at.
PlayWithControlsSinglePlay ==
    /\ pc = "single_play"
    /\ current' = Walk(ListHead, choice - 1)
    /\ IF current' # NullNode
       THEN \/ TrackThrows(current')
            \/ \E r \in PlayerResults :
                 /\ filename' = playlist[current']
                 /\ result' = r
                 /\ sessions' = Append(sessions, current')
                 /\ results' = Append(results, r)
                 /\ pc' = "trav_done"
                 /\ UNCHANGED <<prompts, aborted, proc>>
       ELSE /\ NoTrack
            /\ pc' = "trav_done"
    /\ UNCHANGED <<sessionRest, playlist, mode, rounds, n, i, nodeStack,
                   userStopped, choice, asks, rejected, pushed, popped>>

\* playWithControlsReverse up to its playback loop: the stack is filled.
\* The banner's copy of list.listName may throw, and so may the new
\* stackNode of each push: the traversal is then left with the pushes made
\* so far.
PlayWithControlsReverseEnter ==
    /\ pc = "trav_entry"
    /\ mode = "reverse"
    /\ IF ListHead = NullNode
       THEN /\ pc' = "trav_done"
            /\ UNCHANGED <<n, nodeStack, pushed>>
       ELSE LET filled == PushNodes(<<>>, <<>>, ListHead)
                count == Len(filled.order)
            IN  \/ /\ n' = Len(playlist)
                   /\ nodeStack' = filled.stack
                   /\ pushed' = filled.order
                   /\ pc' = "rev_loop"
                \/ /\ pc' = "thrown"
                   /\ UNCHANGED <<n, nodeStack, pushed>>
                \/ /\ pc' = "thrown"
                   /\ n' = Len(playlist)
                   /\ \E made \in 0..(count - 1) :
                        /\ pushed' = SubSeq(filled.order, 1, made)
                        /\ nodeStack' = SubSeq(filled.stack,
                                               count - made + 1, count)
    /\ NoTrack
    /\ UNCHANGED <<sessionRest, playlist, mode, rounds, i, current,
                   userStopped, choice, asks, rejected, popped>>

\* The reverse loop with a pop that unlinks the node it returns from the list.
PlayWithControlsReverseTrackUnlinks ==
    /\ pc = "rev_loop"
    /\ LET top == pop(nodeStack)
       IN  /\ nodeStack' = top.stack
           /\ current' = top.item
           /\ IF top.item = NullNode
              THEN /\ pc' = "trav_done"
                   /\ NoTrack
                   /\ UNCHANGED <<userStopped, popped, playlist>>
              ELSE /\ popped' = Append(popped, top.item)
                   /\ playlist' = SubSeq(playlist, 1, top.item - 1)
                   /\ \/ /\ TrackThrows(top.item)
                         /\ UNCHANGED userStopped
                      \/ \E r \in PlayerResults, c \in Answers :
                           /\ PlayTrack(top.item, r, c)
                           /\ userStopped' = Stops(r, c)
                           /\ pc' = IF Stops(r, c) THEN "trav_done"
                                                   ELSE "rev_loop"
    /\ UNCHANGED <<sessionRest, mode, rounds, n, i, choice, asks,
                   rejected, pushed>>

\* One evaluation of while ((nodeToPlay = nodeStack.pop()) != nullptr) and
\* the iteration it admits.
PlayWithControlsReverseTrack ==
    /\ pc = "rev_loop"
    /\ LET top == pop(nodeStack)
       IN  /\ nodeStack' = top.stack
           /\ current' = top.item
           /\ IF top.item = NullNode
              THEN /\ pc' = "trav_done"
                   /\ NoTrack
                   /\ UNCHANGED <<userStopped, popped>>
              ELSE /\ popped' = Append(popped, top.item)
                   /\ \/ /\ TrackThrows(top.item)
                         /\ UNCHANGED userStopped
                      \/ \E r \in PlayerResults, c \in Answers :
                           /\ PlayTrack(top.item, r, c)
                           /\ userStopped' = Stops(r, c)
                           /\ pc' = IF Stops(r, c) THEN "trav_done"
                                                   ELSE "rev_loop"
    /\ UNCHANGED <<sessionRest, playlist, mode, rounds, n, i, choice, asks,
                   rejected, pushed>>

\* playWithControlsRepeat without the test of the round count.
PlayWithControlsRepeatEnterAnyRounds ==
    /\ pc = "trav_entry"
    /\ mode = "repeat"
    /\ IF ListHead = NullNode
       THEN /\ pc' = "trav_done"
            /\ UNCHANGED <<n, current>>
       ELSE /\ n' = Len(playlist)
            /\ current' = ListHead
            /\ pc' \in {"rep_loop", "thrown"}
    /\ NoTrack
    /\ UNCHANGED <<sessionRest, playlist, mode, rounds, i, nodeStack,
                   userStopped, choice, asks, rejected, pushed, popped>>

\* playWithControlsRepeat up to its loop.
PlayWithControlsRepeatEnter ==
    /\ pc = "trav_entry"
    /\ mode = "repeat"
    /\ IF ListHead = NullNode \/ rounds <= 0
       THEN /\ pc' = "trav_done"
            /\ UNCHANGED <<n, current>>
       ELSE /\ n' = Len(playlist)
            /\ current' = ListHead
            /\ pc' \in {"rep_loop", "thrown"}
    /\ NoTrack
    /\ UNCHANGED <<sessionRest, playlist, mode, rounds, i, nodeStack,
                   userStopped, choice, asks, rejected, pushed, popped>>

\* One iteration of the for loop of playWithControlsRepeat, the test that
\* follows it included.
PlayWithControlsRepeatTrack ==
    /\ pc = "rep_loop"
    /\ IF current = NullNode
       THEN /\ pc' = "trav_done"
            /\ NoTrack
            /\ UNCHANGED <<i, current, userStopped>>
       ELSE \/ /\ TrackThrows(current)
               /\ UNCHANGED <<i, current, userStopped>>
            \/ \E r \in PlayerResults, c \in Answers :
                 /\ PlayTrack(current, r, c)
                 /\ userStopped' = Stops(r, c)
                 /\ IF Stops(r, c)
                    THEN /\ pc' = "trav_done"
                         /\ UNCHANGED <<i, current>>
                    ELSE /\ current' = NextNode(current)
                         /\ i' = i + 1
                         /\ pc' = IF i + 1 < n * rounds THEN "rep_loop"
                                                        ELSE "trav_done"
    /\ UNCHANGED <<sessionRest, playlist, mode, rounds, n, nodeStack, choice,
                   asks, rejected, pushed, popped>>

TravNext ==
    \/ PlayWithControlsEnter
    \/ PlayWithControlsTrack
    \/ PlayWithControlsSingleEnter
    \/ PlayWithControlsSingleAsk
    \/ PlayWithControlsSinglePlay
    \/ PlayWithControlsReverseEnter
    \/ PlayWithControlsReverseTrack
    \/ PlayWithControlsRepeatEnter
    \/ PlayWithControlsRepeatTrack

TravSpec == TravInit /\ [][TravNext]_vars

(* ----------------------------- LinkedList ------------------------------ *)
(* One behaviour of ListSpec is a sequence of member-function calls on one *)
(* LinkedList object, starting from the constructed, empty list.  The      *)
(* nodes live in heap, by address; song and artist are character strings.  *)

\* The characters of the strings below, in the order of their codes.
Ascii == <<"\t", " ", ".", "/", "0", "1", "2", "3", "4", "5", "6", "7", "8",
           "9", "A", "B", "E", "M", "P", "U", "Z", "[", "\\", "]", "a", "b",
           "d", "e", "h", "m", "n", "p", "t", "u", "y", "z">>

\* The code of a character, as far as comparisons go.
Ord(c) == CHOOSE k \in 1..Len(Ascii) : Ascii[k] = c

\* ::tolower on one character.
tolower(c) ==
    CASE c = "A" -> "a"
      [] c = "B" -> "b"
      [] c = "E" -> "e"
      [] c = "M" -> "m"
      [] c = "P" -> "p"
      [] c = "U" -> "u"
      [] c = "Z" -> "z"
      [] OTHER -> c

\* std::transform(..., ::tolower)
ToLower(str) == [k \in 1..Len(str) |-> tolower(str[k])]

\* std::string operator<: lexicographic on the character codes, a proper
\* prefix first.
RECURSIVE Less(_, _)
Less(a, b) ==
    IF b = <<>> THEN FALSE
    ELSE IF a = <<>> THEN TRUE
    ELSE IF Head(a) # Head(b) THEN Ord(Head(a)) < Ord(Head(b))
    ELSE Less(Tail(a), Tail(b))

\* std::string operator>
Greater(a, b) == Less(b, a)

\* The strings getCleanSongName returns for an empty path and for a name
\* that cleaning leaves empty.
EmptyPathText == <<"[", "E", "m", "p", "t", "y", " ", "P", "a", "t", "h", "]">>

UnnamedText == <<"[", "U", "n", "n", "a", "m", "e", "d", "]">>

\* find_last_of / rfind: the last position of str holding one of chars,
\* 0 when there is none.
LastOf(str, chars) ==
    LET hits == { k \in 1..Len(str) : str[k] \in chars }
    IN  IF hits = {} THEN 0 ELSE CHOOSE k \in hits : \A m \in hits : m <= k

\* \s and \d of the numeric-prefix pattern.
Whitespace == {" ", "\t"}

Digits == {"0", "1", "2", "3", "4", "5", "6", "7", "8", "9"}

\* The first position from k on that holds no character of chars.
RECURSIVE SkipWhile(_, _, _)
SkipWhile(str, k, chars) ==
    IF k <= Len(str) /\ str[k] \in chars THEN SkipWhile(str, k + 1, chars)
                                         ELSE k

\* std::regex_replace(temp, "^\s*\d+\.?\s*", ""): leading blanks, digits,
\* one optional dot and blanks are removed when there is at least one digit.
StripNumericPrefix(str) ==
    LET afterBlanks == SkipWhile(str, 1, Whitespace)
        afterDigits == SkipWhile(str, afterBlanks, Digits)
        afterDot == IF afterDigits <= Len(str) /\ str[afterDigits] = "."
                    THEN afterDigits + 1 ELSE afterDigits
        afterAll == SkipWhile(str, afterDot, Whitespace)
    IN  IF afterDigits = afterBlanks THEN str
        ELSE SubSeq(str, afterAll, Len(str))

\* getCleanSongName: the path and the extension removed, then the numeric
\* prefix.
getCleanSongName(fullPath) ==
    IF fullPath = <<>> THEN EmptyPathText
    ELSE LET lastSlash == LastOf(fullPath, {"/", "\\"})
             base == IF lastSlash # 0
                     THEN SubSeq(fullPath, lastSlash + 1, Len(fullPath))
                     ELSE fullPath
             lastDot == LastOf(base, {"."})
             stem == IF lastDot > 1 THEN SubSeq(base, 1, lastDot - 1)
                                    ELSE base
         IN  IF stem = <<".">> \/ stem = <<".", ".">> THEN fullPath
             ELSE IF StripNumericPrefix(stem) = <<>> THEN UnnamedText
             ELSE StripNumericPrefix(stem)

\* The songs and artists the calls are made with: paths, extensions, a
\* numeric prefix, upper and lower case, and two songs of the same clean
\* name.
Songs == { <<"b", "/", "a">>, <<"B", ".", "m">>, <<"1", "A">> }

Artists == { <<"Z">>, <<"a">> }

\* The (song, artist) pairs the add functions are called with.
Tracks == { << <<"b", "/", "a">>, <<"Z">> >>,
            << <<"B", ".", "m">>, <<"a">> >>,
            << <<"1", "A">>, <<"Z">> >> }

\* The positions add_at and del_at are called with.
Positions == (-1)..(MaxNodes + 2)

\* The list object as a value: what the member functions read and write.
ThisList == [heap |-> heap, head |-> head, len |-> len]

\* new node(...): the lowest free address.
NewNode(h) ==
    CHOOSE a \in Addrs : ~h[a].live /\ \A b \in Addrs : b < a => h[b].live

\* The allocation has an address to return.
HasRoom(h) == \E a \in Addrs : ~h[a].live

\* while (last->next != head) last = last->next;
RECURSIVE LastFrom(_, _, _)
LastFrom(h, hd, node) ==
    IF h[node].next = hd THEN node ELSE LastFrom(h, hd, h[node].next)

\* LinkedList::add_beg
add_beg(L, s, a) ==
    LET nw == NewNode(L.heap)
    IN  IF L.head = NullNode
        THEN [heap |-> [L.heap EXCEPT ![nw] = Cell(s, a, nw)],
              head |-> nw, len |-> L.len + 1]
        ELSE LET last == LastFrom(L.heap, L.head, L.head)
             IN  [heap |-> [L.heap EXCEPT ![nw] = Cell(s, a, L.head),
                                          ![last].next = nw],
                  head |-> nw, len |-> L.len + 1]

\* LinkedList::add_end
add_end(L, s, a) ==
    LET nw == NewNode(L.heap)
    IN  IF L.head = NullNode
        THEN [heap |-> [L.heap EXCEPT ![nw] = Cell(s, a, nw)],
              head |-> nw, len |-> L.len + 1]
        ELSE LET temp == LastFrom(L.heap, L.head, L.head)
             IN  [heap |-> [L.heap EXCEPT ![nw] = Cell(s, a, L.head),
                                          ![temp].next = nw],
                  head |-> L.head, len |-> L.len + 1]

\* for (int i = 1; i < limit; ++i) { if (temp->next == head) break;
\*                                   follow = temp; temp = temp->next; }
RECURSIVE Advance(_, _, _, _, _, _)
Advance(h, hd, temp, follow, k, limit) ==
    IF k < limit /\ h[temp].next # hd
    THEN Advance(h, hd, h[temp].next, temp, k + 1, limit)
    ELSE [temp |-> temp, follow |-> follow]

\* The range check of add_at.
AddPosValid(L, pos) == ~(pos < 1 \/ pos > L.len + 1)

\* add_at that inserts behind the node at pos instead of before it.
add_atBehind(L, s, a, pos) ==
    IF ~AddPosValid(L, pos) THEN L
    ELSE IF pos = 1 THEN add_beg(L, s, a)
    ELSE IF pos = L.len + 1 THEN add_end(L, s, a)
    ELSE LET nw == NewNode(L.heap)
             temp == Advance(L.heap, L.head, L.head, NullNode, 1, pos).temp
         IN  [heap |-> [L.heap EXCEPT ![nw] = Cell(s, a, L.heap[temp].next),
                                      ![temp].next = nw],
              head |-> L.head, len |-> L.len + 1]

\* LinkedList::add_at
add_at(L, s, a, pos) ==
    IF ~AddPosValid(L, pos) THEN L
    ELSE IF pos = 1 THEN add_beg(L, s, a)
    ELSE IF pos = L.len + 1 THEN add_end(L, s, a)
    ELSE LET nw == NewNode(L.heap)
             temp == Advance(L.heap, L.head, L.head, NullNode, 1,
                             pos - 1).temp
         IN  [heap |-> [L.heap EXCEPT ![nw] = Cell(s, a, L.heap[temp].next),
                                      ![temp].next = nw],
              head |-> L.head, len |-> L.len + 1]

\* LinkedList::del_beg
del_beg(L) ==
    IF L.head = NullNode THEN L
    ELSE IF L.heap[L.head].next = L.head
    THEN [heap |-> [L.heap EXCEPT ![L.head] = FreeCell],
          head |-> NullNode, len |-> L.len - 1]
    ELSE LET last == LastFrom(L.heap, L.head, L.head)
             second == L.heap[L.head].next
         IN  [heap |-> [L.heap EXCEPT ![last].next = second,
                                      ![L.head] = FreeCell],
              head |-> second, len |-> L.len - 1]

\* while (temp->next != head) { follow = temp; temp = temp->next; }
RECURSIVE LastAndFollow(_, _, _, _)
LastAndFollow(h, hd, temp, follow) ==
    IF h[temp].next # hd THEN LastAndFollow(h, hd, h[temp].next, temp)
                         ELSE [temp |-> temp, follow |-> follow]

\* LinkedList::del_end
del_end(L) ==
    IF L.head = NullNode THEN L
    ELSE IF L.heap[L.head].next = L.head
    THEN [heap |-> [L.heap EXCEPT ![L.head] = FreeCell],
          head |-> NullNode, len |-> L.len - 1]
    ELSE LET found == LastAndFollow(L.heap, L.head, L.head, NullNode)
         IN  [heap |-> [L.heap EXCEPT ![found.follow].next = L.head,
                                      ![found.temp] = FreeCell],
              head |-> L.head, len |-> L.len - 1]

\* del_at without the range check.
DelPosAny(L, pos) == TRUE

\* The range check of del_at.
DelPosValid(L, pos) == ~(pos < 1 \/ pos > L.len)

\* LinkedList::del_at
del_at(L, pos) ==
    IF L.head = NullNode THEN L
    ELSE IF ~DelPosValid(L, pos) THEN L
    ELSE IF pos = 1 THEN del_beg(L)
    ELSE IF pos = L.len THEN del_end(L)
    ELSE LET found == Advance(L.heap, L.head, L.head, NullNode, 1, pos)
         IN  [heap |-> [L.heap EXCEPT
                            ![found.follow].next = L.heap[found.temp].next,
                            ![found.temp] = FreeCell],
              head |-> L.head, len |-> L.len - 1]

\* clear() on a list with nodes.  The loop starts behind the head with the
\* circle cut at head->next, so it deletes every node, the head last (the
\* last node still points to it); the statement after the loop then deletes
\* the head a second time.  What the second delete of a freed node does is
\* not defined: the process is killed in it (head and len are as they were,
\* every node is freed), or it goes unnoticed and head and len are reset.
ClearOutcomes(L) ==
    LET freed == [a \in Addrs |-> FreeCell]
    IN  { [heap |-> freed, head |-> L.head, len |-> L.len, crashed |-> TRUE],
          [heap |-> freed, head |-> NullNode, len |-> 0, crashed |-> FALSE] }

\* LinkedList::clear
clear(L) ==
    IF L.head = NullNode
    THEN { [heap |-> L.heap, head |-> L.head, len |-> L.len,
            crashed |-> FALSE] }
    ELSE ClearOutcomes(L)

\* The key two neighbours are compared by: the lower-cased clean name of
\* the song, or the lower-cased artist.
SortKey(by, cell) ==
    IF by = "song" THEN ToLower(getCleanSongName(cell.song))
                   ELSE ToLower(cell.artist)

\* A comparison of the songs as they are stored.
OutOfOrderAsStored(by, a, b) ==
    IF by = "song" THEN Greater(a.song, b.song)
                   ELSE Greater(a.artist, b.artist)

\* if (lowerCurrent > lowerNext)
OutOfOrder(by, a, b) == Greater(SortKey(by, a), SortKey(by, b))

\* swapNodesData: the songs and the artists change places, the links stay.
swapNodesData(h, a, b) ==
    IF a # NullNode /\ b # NullNode /\ a # b
    THEN [h EXCEPT ![a].song = h[b].song, ![a].artist = h[b].artist,
                   ![b].song = h[a].song, ![b].artist = h[a].artist]
    ELSE h

\* One pass: for (int i = 0; i < len - 1; ++i) from current on.
RECURSIVE SortPass(_, _, _, _, _, _)
SortPass(by, h, cur, k, count, swapped) ==
    IF k < count - 1
    THEN LET nextNode == h[cur].next
         IN  IF OutOfOrder(by, h[cur], h[nextNode])
             THEN SortPass(by, swapNodesData(h, cur, nextNode), nextNode,
                           k + 1, count, TRUE)
             ELSE SortPass(by, h, nextNode, k + 1, count, swapped)
    ELSE [heap |-> h, swapped |-> swapped]

\* do { one pass } while (swapped);
RECURSIVE SortLoop(_, _, _, _)
SortLoop(by, h, hd, count) ==
    LET pass == SortPass(by, h, hd, 0, count, FALSE)
    IN  IF pass.swapped THEN SortLoop(by, pass.heap, hd, count)
                        ELSE pass.heap

\* LinkedList::sortBySong and LinkedList::sortByArtist
sortBy(by, L) ==
    IF L.head = NullNode \/ L.heap[L.head].next = L.head THEN L
    ELSE [heap |-> SortLoop(by, L.heap, L.head, L.len),
          head |-> L.head, len |-> L.len]

\* The parts of the state a call on the list leaves alone.
listRest == <<env, proc, sess, hist, walk, result, playlists, menu>>

\* No session is running.
NoSession ==
    /\ filename = <<>>
    /\ fileExists = FALSE
    /\ streamLen = 0
    /\ reportedLen = 0
    /\ seekable = FALSE
    /\ rate = 1
    /\ isTty = FALSE
    /\ term0 = Cooked
    /\ nonblock0 = FALSE
    /\ term = term0
    /\ nonblock = nonblock0
    /\ handles = NoHandles
    /\ result = -1
    /\ old_tio = Uninit
    /\ old_flags = Uninit
    /\ total_frames = 0
    /\ decPos = 0
    /\ current_frame_pos = 0
    /\ frames_played = 0
    /\ last_percent = NoPercent
    /\ playback_error = FALSE
    /\ is_paused = FALSE
    /\ should_stop = FALSE
    /\ key = NoKey
    /\ pressed = NoKey
    /\ openFailed = FALSE
    /\ failure = "none"
    /\ did = {}
    /\ seeks = <<>>
    /\ everDecoded = FALSE
    /\ everWritten = FALSE
    /\ termTouched = FALSE
    /\ drained = "no"
    /\ seekSinceDraw = FALSE
    /\ readResult = "none"
    /\ termLogged = FALSE

\* The list after construction.
ListInit ==
    /\ NoWalk
    /\ NoStore
    /\ NoSession
    /\ pc = "list_ready"

\* The call returned with the list L.
Returned(L, c) ==
    /\ heap' = L.heap
    /\ head' = L.head
    /\ len' = L.len
    /\ call' = c
    /\ pc' = "list_ready"
    /\ UNCHANGED listRest

AddBeg ==
    /\ pc = "list_ready"
    /\ HasRoom(heap)
    /\ \E e \in Tracks :
         Returned(add_beg(ThisList, e[1], e[2]),
                  [op |-> "add_beg", song |-> e[1], artist |-> e[2],
                   pos |-> 0])

AddEnd ==
    /\ pc = "list_ready"
    /\ HasRoom(heap)
    /\ \E e \in Tracks :
         Returned(add_end(ThisList, e[1], e[2]),
                  [op |-> "add_end", song |-> e[1], artist |-> e[2],
                   pos |-> 0])

AddAt ==
    /\ pc = "list_ready"
    /\ \E e \in Tracks, pos \in Positions :
         /\ AddPosValid(ThisList, pos) => HasRoom(heap)
         /\ Returned(add_at(ThisList, e[1], e[2], pos),
                     [op |-> "add_at", song |-> e[1], artist |-> e[2],
                      pos |-> pos])

DelBeg ==
    /\ pc = "list_ready"
    /\ Returned(del_beg(ThisList),
                [op |-> "del_beg", song |-> <<>>, artist |-> <<>>, pos |-> 0])

DelEnd ==
    /\ pc = "list_ready"
    /\ Returned(del_end(ThisList),
                [op |-> "del_end", song |-> <<>>, artist |-> <<>>, pos |-> 0])

DelAt ==
    /\ pc = "list_ready"
    /\ \E pos \in Positions :
         Returned(del_at(ThisList, pos),
                  [op |-> "del_at", song |-> <<>>, artist |-> <<>>,
                   pos |-> pos])

Clear ==
    /\ pc = "list_ready"
    /\ \E out \in clear(ThisList) :
         /\ heap' = out.heap
         /\ head' = out.head
         /\ len' = out.len
         /\ pc' = IF out.crashed THEN "list_crashed" ELSE "list_ready"
    /\ call' = [op |-> "clear", song |-> <<>>, artist |-> <<>>, pos |-> 0]
    /\ UNCHANGED listRest

SortBySong ==
    /\ pc = "list_ready"
    /\ Returned(sortBy("song", ThisList),
                [op |-> "sortBySong", song |-> <<>>, artist |-> <<>>,
                 pos |-> 0])

SortByArtist ==
    /\ pc = "list_ready"
    /\ Returned(sortBy("artist", ThisList),
                [op |-> "sortByArtist", song |-> <<>>, artist |-> <<>>,
                 pos |-> 0])

ListNext ==
    \/ AddBeg
    \/ AddEnd
    \/ AddAt
    \/ DelBeg
    \/ DelEnd
    \/ DelAt
    \/ Clear
    \/ SortBySong
    \/ SortByArtist

ListSpec == ListInit /\ [][ListNext]_vars

(* ---------------------------- playlist slots --------------------------- *)
(* One behaviour of MenuSpec is a sequence of menu options on the three     *)
(* slots of playlists: Create, Load, the options of Manage that change a    *)
(* list (rename, delete, add, remove and sort songs), and Exit.  A slot is  *)
(* written by its songs head to tail; add_end is Append on them.            *)

\* The names typed at "Enter name for the new playlist".
TypedNames == { <<"r">>, <<"a", "/", "b">>, <<".">> }

\* isValidNamePart
isValidNamePart(name) ==
    /\ name \notin { <<>>, <<".">>, <<".", ".">> }
    /\ \A k \in 1..Len(name) :
         name[k] \notin {"\\", "/", ":", "*", "?", "\"", "<", ">", "|"}

\* The name createListObject stores for the name typed.
StoredName(typed) ==
    IF typed = <<>> \/ ~isValidNamePart(typed) THEN UnnamedText ELSE typed

\* The one entry the songs of the slots are made of.
SlotEntry == << <<"b", "/", "a">>, <<"Z">> >>

\* The songs a playlist is created or loaded with.
SongLists == UNION { [1..size -> {SlotEntry}] : size \in 0..MaxSongs }

\* What loadFromFile finds in playlistN.json: no file or no JSON, or a
\* playlist with its name and songs.
NoFile == [readable |-> FALSE, listName |-> <<>>, songs |-> <<>>]

FileContents ==
    {NoFile} \cup [readable : {TRUE}, listName : { <<"j">> },
                   songs : SongLists]

\* The slot createMenuOption always takes: the first one.
availableSlotFirst(ps) == 1

\* createMenuOption: the first slot that is not taken, 0 when all are (the
\* code counts from 0 and uses -1).
availableSlot(ps) ==
    IF \A k \in 1..NumSlots : ps[k].taken THEN 0
    ELSE CHOOSE k \in 1..NumSlots :
           ~ps[k].taken /\ \A m \in 1..(k - 1) : ps[m].taken

\* createListObject: the name is stored, the songs chosen are added at the
\* end, the slot is marked taken.
createListObject(slot, typed, added) ==
    [taken |-> TRUE, listName |-> StoredName(typed),
     songs |-> slot.songs \o added]

\* One iteration of the loop of handleLoadLists: a slot that is not taken
\* is loaded from its file when loadFromFile can read it (the list is
\* cleared, the name and the songs are set, taken = true).
loadSlot(slot, file) ==
    IF slot.taken \/ ~file.readable THEN slot
    ELSE [taken |-> TRUE, listName |-> file.listName, songs |-> file.songs]

\* clear() is called on a list with nodes (see ClearOutcomes): the process
\* may be killed in it.
ClearMayCrash(slot) == slot.songs # <<>>

\* The songs the file browser offers, each with the artist typed for it.
SlotEntries == { SlotEntry, << <<"B", ".", "m">>, <<"a">> >> }

\* What one call of handleAddSong adds: nothing (0 cancels), one file (F#),
\* or the same file more than once (S with a number repeated); the artist is
\* typed once per call.
Additions ==
    UNION { [1..size -> {e}] : size \in 0..MaxSongs, e \in SlotEntries }

\* The LinkedList object of a slot with these songs, head to tail.
ListOf(songs) ==
    [heap |-> [a \in Addrs |->
                 IF a <= Len(songs)
                 THEN Cell(songs[a][1], songs[a][2],
                           IF a = Len(songs) THEN 1 ELSE a + 1)
                 ELSE FreeCell],
     head |-> IF songs = <<>> THEN NullNode ELSE 1,
     len |-> Len(songs)]

\* The node k links behind node.
RECURSIVE Follow(_, _, _)
Follow(h, node, k) ==
    IF node = NullNode \/ ~h[node].live THEN NullNode
    ELSE IF k = 0 THEN node
    ELSE Follow(h, h[node].next, k - 1)

\* The songs of the list L, head to tail.
SongsOf(L) ==
    [k \in 1..L.len |-> <<L.heap[Follow(L.heap, L.head, k - 1)].song,
                          L.heap[Follow(L.heap, L.head, k - 1)].artist>>]

\* The slot after a member function returned the list L.
WithList(slot, L) == [slot EXCEPT !.songs = SongsOf(L)]

\* handleAddSong: for each file chosen, li.add_beg or li.add_end.
RECURSIVE handleAddSong(_, _, _)
handleAddSong(L, added, addToBeginning) ==
    IF added = <<>> THEN L
    ELSE handleAddSong(IF addToBeginning
                       THEN add_beg(L, Head(added)[1], Head(added)[2])
                       ELSE add_end(L, Head(added)[1], Head(added)[2]),
                       Tail(added), addToBeginning)

\* handleRename: a name that is empty or not valid is refused.
handleRename(slot, newName) ==
    IF newName = <<>> \/ ~isValidNamePart(newName) THEN slot
    ELSE [slot EXCEPT !.listName = newName]

\* handleSort: nothing on an empty list, else the sort chosen.
handleSort(slot, by) ==
    IF slot.songs = <<>> THEN slot
    ELSE WithList(slot, sortBy(by, ListOf(slot.songs)))

\* The parts of the state a menu option leaves alone.
menuRest == <<env, proc, sess, hist, walk, result, heap, head, len, call>>

\* The program after start: three constructed lists.
MenuInit ==
    /\ NoWalk
    /\ NoStore
    /\ NoSession
    /\ pc = "menu"

\* An option of manageListMenu on the list in slot k came back with the
\* slot as given, and Back to Main Menu was chosen.
Managed(k, slot) ==
    /\ playlists' = [playlists EXCEPT ![k] = slot]
    /\ menu' = [op |-> "manage", slot |-> 0]
    /\ pc' = "menu"

\* The file browser was given D or F with a number std::stoi cannot hold:
\* std::out_of_range leaves handleAddSong or handleAddMiddle, nothing
\* catches it, the process is aborted.
BrowserAborts(k) ==
    /\ playlists' = playlists
    /\ menu' = [op |-> "manage", slot |-> 0]
    /\ pc' = "menu_crashed"

\* createMenuOption.  createListObject opens the file browser once for each
\* song asked for; when the browser aborts the process the name is stored
\* and the songs of the earlier rounds are added, and taken is not set.
CreateMenuOption ==
    /\ pc = "menu"
    /\ LET slot == availableSlot(playlists)
       IN  /\ menu' = [op |-> "create", slot |-> slot]
           /\ IF slot = 0
              THEN /\ playlists' = playlists
                   /\ pc' = "menu"
              ELSE \E typed \in TypedNames, added \in SongLists,
                      stoiThrows \in BOOLEAN :
                     LET made == createListObject(playlists[slot], typed,
                                                  added)
                     IN  /\ playlists' =
                                [playlists EXCEPT
                                   ![slot] = IF stoiThrows
                                             THEN [made EXCEPT
                                                     !.taken = FALSE]
                                             ELSE made]
                         /\ pc' = IF stoiThrows THEN "menu_crashed" ELSE "menu"
    /\ UNCHANGED menuRest

\* handleLoadLists.  The slots are visited in order and loadFromFile is
\* called for each slot that is not taken.  loadFromFile calls clear() after
\* the file is opened and parsed and before the name, the songs and taken are
\* written: when clear() kills the process (killedAt) that slot and the later
\* slots stay as they were, the earlier slots are loaded.
HandleLoadLists ==
    /\ pc = "menu"
    /\ \E files \in [1..NumSlots -> FileContents] :
         \E killedAt \in 0..NumSlots :
            /\ killedAt # 0 =>
                  /\ ~playlists[killedAt].taken
                  /\ files[killedAt].readable
                  /\ ClearMayCrash(playlists[killedAt])
            /\ playlists' =
                   [k \in 1..NumSlots |->
                      IF killedAt = 0 \/ k < killedAt
                      THEN loadSlot(playlists[k], files[k])
                      ELSE playlists[k]]
            /\ pc' = IF killedAt = 0 THEN "menu" ELSE "menu_crashed"
    /\ menu' = [op |-> "load", slot |-> 0]
    /\ UNCHANGED menuRest

\* manageListMenu option 2.
HandleRename ==
    /\ pc = "menu"
    /\ \E k \in 1..NumSlots, newName \in TypedNames :
         /\ playlists[k].taken
         /\ Managed(k, handleRename(playlists[k], newName))
    /\ UNCHANGED menuRest

\* manageCoordinatingMenu, manageListMenu and handleDeleteList on a list
\* that is taken, with the answer to "Are you sure".
HandleDeleteList ==
    /\ pc = "menu"
    /\ \E k \in 1..NumSlots, confirm \in Answers :
         /\ playlists[k].taken
         /\ menu' = [op |-> "manage", slot |-> 0]
         /\ IF toupper(confirm) = "Y"
            THEN \E crashed \in BOOLEAN :
                   /\ crashed => ClearMayCrash(playlists[k])
                   /\ IF crashed
                      THEN /\ playlists' = playlists
                           /\ pc' = "menu_crashed"
                      ELSE /\ playlists' =
                                  [playlists EXCEPT ![k] = EmptySlot]
                           /\ pc' = "menu"
            ELSE /\ playlists' = playlists
                 /\ pc' = "menu"
    /\ UNCHANGED menuRest

\* manageListMenu option 4.
HandleAddBeginning ==
    /\ pc = "menu"
    /\ \E k \in 1..NumSlots :
         /\ playlists[k].taken
         /\ \/ BrowserAborts(k)
            \/ \E added \in Additions :
                 /\ Len(playlists[k].songs) + Len(added) <= MaxSongs
                 /\ Managed(k, WithList(playlists[k],
                               handleAddSong(ListOf(playlists[k].songs),
                                             added, TRUE)))
    /\ UNCHANGED menuRest

\* manageListMenu option 5.
HandleAddEnd ==
    /\ pc = "menu"
    /\ \E k \in 1..NumSlots :
         /\ playlists[k].taken
         /\ \/ BrowserAborts(k)
            \/ \E added \in Additions :
                 /\ Len(playlists[k].songs) + Len(added) <= MaxSongs
                 /\ Managed(k, WithList(playlists[k],
                               handleAddSong(ListOf(playlists[k].songs),
                                             added, FALSE)))
    /\ UNCHANGED menuRest

\* manageListMenu option 6: the position is asked for until it is in
\* 1..len+1, then the browser adds one file there or is cancelled.
HandleAddMiddle ==
    /\ pc = "menu"
    /\ \E k \in 1..NumSlots :
         /\ playlists[k].taken
         /\ \/ BrowserAborts(k)
            \/ Managed(k, playlists[k])
            \/ \E position \in 1..(Len(playlists[k].songs) + 1),
                  e \in SlotEntries :
                 /\ Len(playlists[k].songs) < MaxSongs
                 /\ Managed(k, WithList(playlists[k],
                               add_at(ListOf(playlists[k].songs),
                                      e[1], e[2], position)))
    /\ UNCHANGED menuRest

\* manageListMenu option 7: if (li.head) li.del_beg();
DelBeginningOption ==
    /\ pc = "menu"
    /\ \E k \in 1..NumSlots :
         /\ playlists[k].taken
         /\ Managed(k, IF playlists[k].songs = <<>> THEN playlists[k]
                       ELSE WithList(playlists[k],
                                     del_beg(ListOf(playlists[k].songs))))
    /\ UNCHANGED menuRest

\* manageListMenu option 8: if (li.head) li.del_end();
DelEndOption ==
    /\ pc = "menu"
    /\ \E k \in 1..NumSlots :
         /\ playlists[k].taken
         /\ Managed(k, IF playlists[k].songs = <<>> THEN playlists[k]
                       ELSE WithList(playlists[k],
                                     del_end(ListOf(playlists[k].songs))))
    /\ UNCHANGED menuRest

\* manageListMenu option 9: nothing on an empty list, else the position is
\* asked for until it is in 1..len.
HandleDeleteMiddle ==
    /\ pc = "menu"
    /\ \E k \in 1..NumSlots :
         /\ playlists[k].taken
         /\ IF playlists[k].songs = <<>>
            THEN Managed(k, playlists[k])
            ELSE \E position \in 1..Len(playlists[k].songs) :
                   Managed(k, WithList(playlists[k],
                                  del_at(ListOf(playlists[k].songs),
                                         position)))
    /\ UNCHANGED menuRest

\* manageListMenu option 15.
HandleSort ==
    /\ pc = "menu"
    /\ \E k \in 1..NumSlots, by \in {"song", "artist"} :
         /\ playlists[k].taken
         /\ Managed(k, handleSort(playlists[k], by))
    /\ UNCHANGED menuRest

\* Main-menu option 5: the menu loop is left and main() calls clear() on
\* every playlist that is taken, first slot first, then returns 0.  clear()
\* on a list with songs may kill the process (see ClearOutcomes): the lists
\* before it are cleared, this one and those behind it are as they were.
\* clear() leaves listName and taken alone.
ExitOption ==
    /\ pc = "menu"
    /\ \E killedAt \in 0..NumSlots :
         /\ killedAt # 0 =>
               playlists[killedAt].taken /\ ClearMayCrash(playlists[killedAt])
         /\ playlists' =
                [k \in 1..NumSlots |->
                   IF playlists[k].taken /\ (killedAt = 0 \/ k < killedAt)
                   THEN [playlists[k] EXCEPT !.songs = <<>>]
                   ELSE playlists[k]]
         /\ pc' = IF killedAt = 0 THEN "exited" ELSE "menu_crashed"
    /\ menu' = [op |-> "exit", slot |-> 0]
    /\ UNCHANGED menuRest

MenuNext ==
    \/ CreateMenuOption
    \/ HandleLoadLists
    \/ HandleRename
    \/ HandleDeleteList
    \/ HandleAddBeginning
    \/ HandleAddEnd
    \/ HandleAddMiddle
    \/ DelBeginningOption
    \/ DelEndOption
    \/ HandleDeleteMiddle
    \/ HandleSort
    \/ ExitOption

MenuSpec == MenuInit /\ [][MenuNext]_vars

(* ------------------------------ claims --------------------------------- *)

Exited == pc \in {"returned", "thrown"}

InLoop == pc \in {"mp3_loop", "sf_loop"}

InBody == pc \in {"mp3_body", "sf_body"}

\* A step of the loop that polled the keyboard and consumed the key k.
Consumed(k) == InLoop /\ key' = k

\* The stream behaves: it can seek and its length is the one reported.  The
\* seek claims are stated for such streams, so that what refutes them is the
\* session's code and not a decoder that cannot seek.
WellBehaved == seekable /\ reportedLen = streamLen

\* C1: on every exit path of a session (return with Success, Error or
\* StoppedByUser, or an exception raised after raw mode was entered) the
\* terminal configuration and the stdin file-status flags are the ones in
\* force when the session started.
C1_TerminalRestoredOnEveryExit ==
    Exited => term = term0 /\ nonblock = nonblock0

\* C2: each handle that was acquired is released exactly once on every exit of
\* the session, the early returns of the opening steps and the exit by
\* exception included; no handle is released twice, none is left open.
\* Violated: the exception raised between the opening steps and the loop
\* (sample buffer, clean song name) leaves the session with every acquired
\* handle still open, since no handler and no destructor releases them.
C2_HandlesReleasedOnce ==
    /\ \A h \in Handles :
         handles[h].acq <= 1 /\ handles[h].rel <= handles[h].acq
    /\ Exited => \A h \in Handles : handles[h].rel = handles[h].acq

\* C3: a session returns 0, 1 or 2: 1 exactly when an opening step failed or
\* a decode or output failure occurred, 2 exactly when no failure occurred
\* and a stop key was consumed, 0 exactly when the loop ended by
\* end-of-stream with neither.
C3_ResultTriState ==
    pc = "returned" =>
        /\ result \in {0, 1, 2}
        /\ result = 1 <=> (openFailed \/ failure # "none")
        /\ result = 2 <=> (~openFailed /\ failure = "none" /\ should_stop)
        /\ result = 0 <=> (~openFailed /\ failure = "none" /\ ~should_stop)

\* C4: a stop key consumed while the session is Playing (not paused) makes
\* the session return StoppedByUser (2) without draining the output device,
\* whatever the backend does afterwards.
C4_StopReturnsStoppedByUser ==
    (pc = "returned" /\ should_stop /\ ~is_paused) =>
        (result = 2 /\ drained = "no")

\* C5: if an opening step fails the session returns Error without entering
\* Playing: no chunk is decoded, nothing is written to the output device and
\* the terminal mode is never changed.
C5_OpeningFailureIsError ==
    openFailed =>
        /\ pc = "returned"
        /\ result = 1
        /\ ~everDecoded
        /\ ~everWritten
        /\ did = {}
        /\ ~termTouched
        /\ term = term0
        /\ nonblock = nonblock0

\* The output stream could not be created for a sample-coded file.
C5_Witness ==
    /\ openFailed
    /\ pc = "returned"
    /\ handles["sf"].acq = 1

\* C6: a seek-forward consumed at decoder position F in a session whose
\* total length T is known moves the decoder to min(T-1, F + 10*rate), in
\* both backends, and never moves it backwards.
C6_SeekForwardClamps ==
    [][ (Consumed("k") /\ WellBehaved /\ total_frames > 0) =>
            /\ decPos' = Min(total_frames - 1, decPos + rate * SeekSeconds)
            /\ decPos' >= decPos ]_vars

\* C7: a seek-back consumed at decoder position F moves the decoder to
\* max(0, F - 10*rate), in both backends.
C7_SeekBackClamps ==
    [][ (Consumed("j") /\ WellBehaved) =>
            decPos' = Max(0, decPos - rate * SeekSeconds) ]_vars

\* C8: every seek request issued on 'j', in either backend, has a resolved
\* target >= 0.
C8_NoSeekBeforeZero ==
    (InBody /\ key = "j") => \A req \in DOMAIN seeks : seeks[req] >= 0

\* C9: when the total length is unknown (zero or negative) a seek-forward
\* key is refused in both backends: no seek request reaches the decoder, the
\* position and the error flag are unchanged, and playback continues.
C9_ForwardRefusedWhenLengthUnknown ==
    [][ (Consumed("k") /\ total_frames <= 0) =>
            /\ seeks' = <<>>
            /\ UNCHANGED <<decPos, current_frame_pos, frames_played,
                           playback_error>>
            /\ InBody' ]_vars

\* C10: while the paused flag is set no loop iteration decodes a chunk or
\* writes to the output device, yet every iteration polls the keyboard and,
\* on a terminal, consumes the key it finds: space resumes, 's' stops, 'j'
\* and 'k' seek.
C10_PauseSuspendsDecodeNotPolling ==
    [][ /\ (InBody /\ is_paused) =>
              /\ did' = {"sleep"}
              /\ UNCHANGED <<decPos, current_frame_pos, frames_played,
                             last_percent, everDecoded, everWritten,
                             playback_error>>
        /\ (InLoop /\ is_paused) =>
              /\ did' = {"poll"}
              /\ InBody'
              /\ isTty => key' = pressed'
              /\ (key' = " ") => ~is_paused'
              /\ (key' \in {"s", "S"}) => should_stop'
              /\ (key' \in {"j", "k"} /\ pc = "sf_loop") => seeks' # <<>>
              /\ (key' = "j" /\ pc = "mp3_loop" /\ current_frame_pos > 0) =>
                     seeks' # <<>>
              /\ (key' = "k" /\ pc = "mp3_loop" /\ total_frames > 0) =>
                     seeks' # <<>> ]_vars

\* A paused sample-coded session, chunks already played, that has just
\* consumed a seek key.
C10_Witness ==
    /\ pc = "sf_body"
    /\ is_paused
    /\ everWritten
    /\ key = "j"
    /\ seeks # <<>>

\* C11: pause followed by resume with no seek key in between leaves the
\* decoder position and the session's position counters exactly as they were
\* at the pause: from the step that consumes the pausing space, through every
\* step taken while paused, to the step that consumes the resuming space, a
\* step that consumes no seek key moves none of them, so the first chunk
\* decoded after the resume starts at the frame the pause was made at.
C11_PauseResumeKeepsPosition ==
    [][ ((is_paused \/ is_paused') /\ key' \notin {"j", "k"}) =>
            UNCHANGED <<decPos, current_frame_pos, frames_played>> ]_vars

\* A session that played chunks, was paused, and has just consumed the space
\* that resumes it.
C11_Witness ==
    /\ InBody
    /\ key = " "
    /\ ~is_paused
    /\ everWritten
    /\ decPos > 0
    /\ decPos < streamLen

TravDone == pc = "trav_done"

\* Every session of the traversal returned Success.
AllSucceeded == \A k \in DOMAIN results : results[k] = 0

\* The entry the k-th session of a traversal is to be on, in the order of
\* its variant.
VariantOrder(k) ==
    CASE mode = "sequential" -> k
      [] mode = "repeat" -> ((k - 1) % Len(playlist)) + 1
      [] mode = "reverse" -> Len(playlist) - k + 1
      [] OTHER -> choice

\* C12: in the sequential, reverse and repeat traversals, once a session
\* returns StoppedByUser (2) no further session is invoked: a result of 2 is
\* the last result of the traversal, and the traversal has ended, however
\* many tracks or rounds remain.
C12_StopHaltsTraversal ==
    mode \in {"sequential", "reverse", "repeat"} =>
        \A k \in DOMAIN results :
            results[k] = 2 => (k = Len(results) /\ TravDone)

\* A repeat traversal of two rounds over three tracks stopped in its second
\* session.
C12_Witness ==
    /\ mode = "repeat"
    /\ rounds = 2
    /\ Len(playlist) = 3
    /\ results = <<0, 2>>
    /\ TravDone

\* C13: in every traversal variant, a session that returns Error is followed
\* by one continue-or-abort prompt; after an abort no further session is
\* invoked, and after a continue the next session is on the next entry in
\* the variant's order (the failed entry is not played again).
C13_ErrorPromptsContinueOrAbort ==
    /\ prompts = Cardinality({k \in DOMAIN results : results[k] = 1})
    /\ aborted => (TravDone /\ results[Len(results)] = 1)
    /\ \A k \in DOMAIN sessions : sessions[k] = VariantOrder(k)

\* C14: for a playlist of length L and N >= 1 rounds in which every session
\* succeeds, the repeat traversal invokes exactly N*L sessions, the k-th on
\* the entry at list position ((k-1) mod L) + 1.
C14_RepeatPlaysRoundsInListOrder ==
    mode = "repeat" =>
        /\ \A k \in DOMAIN sessions :
             /\ sessions[k] = ((k - 1) % Len(playlist)) + 1
             /\ k <= rounds * Len(playlist)
        /\ (TravDone /\ rounds >= 1 /\ AllSucceeded) =>
               Len(sessions) = rounds * Len(playlist)

\* Two rounds over three tracks, played to the end.
C14_Witness ==
    /\ mode = "repeat"
    /\ rounds = 2
    /\ Len(playlist) = 3
    /\ TravDone
    /\ AllSucceeded
    /\ sessions = <<1, 2, 3, 1, 2, 3>>

\* C15: for a playlist of length L in which every session succeeds, the
\* reverse traversal pushes the entries head to tail (1, ..., L), all of
\* them before the first session, pops them in the opposite order, and
\* invokes exactly L sessions, on the entries at positions L, L-1, ..., 1 in
\* that order: each entry popped is the one the next session is on.
C15_ReversePlaysTailToHead ==
    mode = "reverse" =>
        /\ \A k \in DOMAIN pushed : pushed[k] = k
        /\ ((pc \in {"rev_loop", "trav_done"} \/ sessions # <<>>)
                /\ playlist # <<>>) =>
               pushed = [k \in 1..Len(playlist) |-> k]
        /\ \A k \in DOMAIN popped : popped[k] = Len(playlist) - k + 1
        /\ \A k \in DOMAIN sessions : sessions[k] = popped[k]
        /\ pc # "thrown" => sessions = popped
        /\ (TravDone /\ AllSucceeded) => Len(sessions) = Len(playlist)

\* Three tracks played in reverse to the end.
C15_Witness ==
    /\ mode = "reverse"
    /\ TravDone
    /\ AllSucceeded
    /\ pushed = <<1, 2, 3>>
    /\ popped = <<3, 2, 1>>
    /\ sessions = <<3, 2, 1>>
    /\ nodeStack = <<>>

\* C16: for a playlist of length L in which every session succeeds, the
\* sequential traversal invokes exactly L sessions, on the entries at
\* positions 1, 2, ..., L in that order, each entry once.
C16_SequentialPlaysHeadToTail ==
    mode = "sequential" =>
        /\ \A k \in DOMAIN sessions : sessions[k] = k /\ k <= Len(playlist)
        /\ (TravDone /\ AllSucceeded) => Len(sessions) = Len(playlist)

\* Three tracks played in order to the end.
C16_Witness ==
    /\ mode = "sequential"
    /\ TravDone
    /\ AllSucceeded
    /\ sessions = <<1, 2, 3>>

\* C17: the single-selection traversal invokes exactly one session, on the
\* entry at the chosen position p with 1 <= p <= len; a choice outside
\* [1, len] is rejected and asked again and never causes a session.
C17_SinglePlaysChosenEntryOnce ==
    /\ [](mode = "single" =>
            /\ Len(sessions) <= 1
            /\ \A k \in DOMAIN sessions :
                 sessions[k] = choice /\ choice \in 1..Len(playlist)
            /\ (TravDone /\ playlist # <<>>) => Len(sessions) = 1
            /\ (pc = "single_ask") => sessions = <<>>)
    /\ [][ (pc = "single_ask") =>
             \/ /\ choice' \in 1..Len(playlist)
                /\ pc' = "single_play"
                /\ rejected' = rejected
             \/ /\ choice' \notin 1..Len(playlist)
                /\ pc' = "single_ask"
                /\ rejected' = rejected + 1
                /\ sessions' = <<>> ]_vars

\* The second track of three played after a first choice was rejected.
C17_Witness ==
    /\ mode = "single"
    /\ TravDone
    /\ Len(playlist) = 3
    /\ rejected = 1
    /\ choice = 2
    /\ sessions = <<2>>

\* A step of the loop body that redrew the progress bar.
Redraws == InBody /\ "redraw" \in did'

\* C18: between any two consecutive redraws of the progress bar with no seek
\* in between, the drawn percent does not decrease: a redraw that follows an
\* earlier one, no seek request having been issued since, draws a percent
\* that is not below the one drawn before.
C18_PercentMonotoneBetweenRedraws ==
    [][ (Redraws /\ last_percent # NoPercent /\ ~seekSinceDraw) =>
            last_percent' >= last_percent ]_vars

\* A second redraw, with no seek since the first.
C18_Witness ==
    /\ InLoop
    /\ "redraw" \in did
    /\ ~seekSinceDraw
    /\ last_percent > 0
    /\ last_percent < 100
    /\ decPos > MaxChunk

\* C19: every percent value drawn by the progress reporter is an integer in
\* [0,100], for every decoder position and every known total length,
\* positions beyond the total included.
C19_PercentInRange ==
    /\ last_percent = NoPercent \/ last_percent \in 0..100
    /\ "redraw" \in did => (total_frames > 0 /\ last_percent \in 0..100)

\* A redraw at a decoder position beyond the total length.
C19_Witness ==
    /\ "redraw" \in did
    /\ total_frames > 0
    /\ current_frame_pos > total_frames
    /\ last_percent = 100

\* The name ends in a dot followed by m, p, 3, each letter in either case.
EndsInDotMp3(name) ==
    /\ Len(name) >= 4
    /\ SubSeq(name, Len(name) - 3, Len(name)) \in
           { <<".", m, p, "3">> : m \in {"m", "M"}, p \in {"p", "P"} }

\* C20: the format classifier returns FrameCoded exactly when the file name
\* ends in a dot followed by the letters m, p, 3 in any mix of upper and
\* lower case, and SampleCoded for every other name, names with no extension
\* included: the frame-coded backend is picked for exactly these names.
C20_ClassifierByExtension ==
    /\ pc = "mp3_init" => EndsInDotMp3(filename)
    /\ pc = "sf_open" => ~EndsInDotMp3(filename)

\* C21: player(filename) returns 0 on success and a non-zero value on error:
\* a call returns non-zero exactly when an opening step failed or a decode
\* or output failure occurred, so that a non-zero return means that playback
\* failed.
C21_PlayerNonZeroIffError ==
    pc = "returned" => (result # 0 <=> (openFailed \/ failure # "none"))

InCleanup == pc \in {"mp3_cleanup", "sf_cleanup"}

\* C22: after a stop key has been consumed the session terminates the loop
\* immediately: no further chunk is decoded and nothing further is written
\* to the output device before the session closes.
C22_StopEndsLoopImmediately ==
    [][ (InBody /\ should_stop) =>
            /\ did' \cap {"read", "write"} = {}
            /\ UNCHANGED <<decPos, everDecoded, everWritten>> ]_vars

\* C23: immediately after every accepted seek ('j' or 'k'), in both
\* backends, the session's position counter equals the decoder's new
\* position, so that a second seek with no chunk decoded in between is
\* computed from the position reached by the first.
C23_CounterFollowsSeek ==
    [][ ((Consumed("j") \/ Consumed("k")) /\ seeks' # <<>> /\ WellBehaved) =>
            current_frame_pos' = decPos' ]_vars

\* The backend refuses the seek-back request made at this state: the stream
\* cannot seek, or (sample-coded, relative request) the target lies before
\* the start.
SeekBackRefused ==
    \/ ~seekable
    \/ pc = "sf_loop" /\ decPos - rate * SeekSeconds < 0

\* C24: if the backend reports a failure on a seek-back request, the session
\* falls back to seeking to position 0 and its position counter becomes 0,
\* in both backends; the failure does not set the error flag.
C24_SeekBackFailureFallsBackToZero ==
    [][ (Consumed("j") /\ seeks' # <<>> /\ SeekBackRefused) =>
            /\ Len(seeks') = 2
            /\ seeks'[2] = 0
            /\ current_frame_pos' = 0
            /\ playback_error' = playback_error ]_vars

\* C25: if the terminal configuration query or set fails when a session
\* enters raw mode, the failure is logged, playback continues to its normal
\* outcome without interactive control (no key is acted on), and no
\* configuration that was not saved is written back to the terminal at the
\* end of the session.
C25_RawModeFailureLoggedAndHarmless ==
    (pc = "returned" /\ ~openFailed /\ ~isTty) =>
        /\ termLogged
        /\ ~is_paused
        /\ ~should_stop
        /\ result \in {0, 1}
        /\ old_tio = Uninit
        /\ term = term0

\* C26: any unrecoverable decode failure or output-write failure sets the
\* session to Errored: the loop ends in that iteration, the output device is
\* not drained, and the session returns Error.
C26_FailureIsErrored ==
    /\ (failure # "none" /\ ~openFailed) => (InCleanup \/ pc = "returned")
    /\ (failure # "none" /\ pc = "returned") =>
           (result = 1 /\ drained = "no")

\* C27: the output device is drained exactly when the loop ended by
\* end-of-stream with no error and no stop request; a drain failure is only
\* a warning and the session still returns Success.
C27_DrainedIffEndOfStream ==
    (pc = "returned" /\ ~openFailed) =>
        /\ drained # "no" <=>
               (readResult \in {"done", "eof"} /\ failure = "none"
                /\ ~should_stop)
        /\ drained = "failed" => result = 0

\* C28: a stop request is honoured within one loop iteration: after a stop
\* key is consumed the loop performs no further key poll, and the remainder
\* of the current iteration is the last thing it does before it exits.
C28_StopHonouredWithinOneIteration ==
    /\ [](should_stop => ~InLoop)
    /\ [][ (InBody /\ should_stop) => InCleanup' ]_vars

\* A stop consumed while playing: the iteration decoded and wrote its chunk
\* and the loop was left.
C28_Witness ==
    /\ InCleanup
    /\ should_stop
    /\ ~is_paused
    /\ failure = "none"
    /\ did = {"read", "write"}

\* C29: in the frame-coded backend a decode call that returns a zero-length
\* chunk or a mid-stream format change does not set the error flag and
\* writes nothing to the output device, and it does not end the loop: unless
\* a stop was consumed in the same iteration, the session goes on with the
\* next iteration and its key poll.
C29_EmptyChunkAndNewFormatContinue ==
    [][ (pc = "mp3_body" /\ readResult' \in {"zero", "new_format"}) =>
            /\ did' = {"read"}
            /\ UNCHANGED <<playback_error, failure, everWritten, decPos,
                           current_frame_pos, last_percent>>
            /\ ~should_stop => pc' = "mp3_loop" ]_vars

\* A format change in the middle of a frame-coded stream, the session back
\* at the key poll.
C29_Witness ==
    /\ pc = "mp3_loop"
    /\ readResult = "new_format"
    /\ decPos > 0
    /\ decPos < streamLen
    /\ ~playback_error

\* C30: a polled key other than space, 's', 'S', 'j' or 'k' is ignored: the
\* paused flag, the stop flag, the error flag, the decoder position and the
\* position counters are all unchanged by it.
C30_OtherKeyIgnored ==
    [][ (InLoop /\ key' \notin {" ", "s", "S", "j", "k", NoKey}) =>
            /\ UNCHANGED <<is_paused, should_stop, playback_error, decPos,
                           current_frame_pos, frames_played>>
            /\ seeks' = <<>> ]_vars

\* Another key consumed by a sample-coded session in the middle of the
\* stream.
C30_Witness ==
    /\ pc = "sf_body"
    /\ key = "x"
    /\ pressed = "x"
    /\ decPos > 0
    /\ ~is_paused

\* The decoder has reported the end of the stream or an error, or the output
\* device has refused a chunk.
EndReported ==
    \/ readResult \in {"done", "eof", "err", "error"}
    \/ failure # "none"

\* The stream is finite: a loop that goes on forever is one whose decoder
\* eventually reports the end of the stream or an error.
FiniteStream == ([]<>(InLoop \/ InBody)) => <>EndReported

\* A paused session eventually receives a resume or a stop key.
PauseEnds == [](is_paused => <>(~is_paused \/ should_stop))

\* C31: every session reaches Closed (the handles released, the terminal
\* restored, the result returned), eventually, provided the decoder delivers
\* a finite stream and a paused session eventually receives a resume or a
\* stop key; and Closed is reached once only, nothing follows it.
C31_EverySessionCloses ==
    /\ (FiniteStream /\ PauseEnds) => <>(pc = "returned")
    /\ [][pc = "returned" => pc' = "returned"]_vars

\* C32: no traversal variant changes the playlist: head, len, the order of
\* the nodes and every node's entry are the same after every step of the
\* traversal as before it, whatever the session results.
C32_TraversalKeepsPlaylist ==
    [][ playlist' = playlist /\ ListHead' = ListHead ]_vars

\* A reverse traversal that went through a whole list of several entries,
\* one of its sessions failed.
C32_Witness ==
    /\ TravDone
    /\ mode = "reverse"
    /\ Len(playlist) >= 2
    /\ Len(sessions) = Len(playlist)
    /\ \E k \in DOMAIN results : results[k] = 1

\* C33: on an empty playlist every traversal variant returns without
\* invoking any session, and the repeat traversal with a round count <= 0
\* invokes no session either: it returns at its entry.
C33_NothingToPlayNoSession ==
    (playlist = <<>> \/ (mode = "repeat" /\ rounds <= 0)) =>
        /\ sessions = <<>>
        /\ pc \in {"trav_entry", "trav_done"}
        /\ TravDone => (n = 0 /\ nodeStack = <<>> /\ prompts = 0)

\* A repeat traversal of a list with entries and a round count below 1 that
\* has returned.
C33_Witness ==
    /\ TravDone
    /\ mode = "repeat"
    /\ rounds < 0
    /\ playlist # <<>>
    /\ sessions = <<>>

\* Following next from head visits len distinct nodes and then returns to
\* head.
Circular ==
    /\ len >= 1
    /\ \A k \in 0..(len - 1) : Follow(heap, head, k) # NullNode
    /\ \A k, m \in 0..(len - 1) :
         k # m => Follow(heap, head, k) # Follow(heap, head, m)
    /\ Follow(heap, head, len) = head

\* The list read head to tail: the (song, artist) pairs of the len nodes
\* from head on.
Entries ==
    [k \in 1..len |-> <<heap[Follow(heap, head, k - 1)].song,
                        heap[Follow(heap, head, k - 1)].artist>>]

\* A sequence with e put in as its pos-th entry.
InsertAt(seq, pos, e) ==
    SubSeq(seq, 1, pos - 1) \o <<e>> \o SubSeq(seq, pos, Len(seq))

\* A sequence with its pos-th entry taken out.
RemoveAt(seq, pos) ==
    SubSeq(seq, 1, pos - 1) \o SubSeq(seq, pos + 1, Len(seq))

\* How often e occurs in seq.
Count(seq, e) == Cardinality({ k \in DOMAIN seq : seq[k] = e })

\* The key of an entry of the list read head to tail.
EntryKey(by, e) ==
    IF by = "song" THEN ToLower(getCleanSongName(e[1])) ELSE ToLower(e[2])

\* The list is in non-decreasing order of the key, head to tail.
SortedBy(by, seq) ==
    \A k \in 1..(Len(seq) - 1) :
        ~Greater(EntryKey(by, seq[k]), EntryKey(by, seq[k + 1]))

\* C34: after any sequence of add_beg, add_end, add_at, del_beg, del_end,
\* del_at and clear the list is either empty (head is null and len is 0) or
\* circular with exactly len nodes.
C34_EmptyOrCircular ==
    \/ head = NullNode /\ len = 0
    \/ head # NullNode /\ Circular

\* C35: the list read head to tail behaves as a plain sequence: add_at with
\* 1 <= pos <= len+1 makes the new entry the pos-th one, del_at with
\* 1 <= pos <= len removes exactly the pos-th one, the other entries keep
\* their order; add_beg, add_end, del_beg and del_end are the cases of the
\* first and the last position.
C35_ListIsSequence ==
    [][ pc = "list_ready" =>
          /\ (call'.op = "add_at" /\ AddPosValid(ThisList, call'.pos)) =>
                 Entries' = InsertAt(Entries, call'.pos,
                                     <<call'.song, call'.artist>>)
          /\ (call'.op = "del_at" /\ head # NullNode
              /\ DelPosValid(ThisList, call'.pos)) =>
                 Entries' = RemoveAt(Entries, call'.pos)
          /\ call'.op = "add_beg" =>
                 Entries' = InsertAt(Entries, 1, <<call'.song, call'.artist>>)
          /\ call'.op = "add_end" =>
                 Entries' = InsertAt(Entries, len + 1,
                                     <<call'.song, call'.artist>>)
          /\ (call'.op = "del_beg" /\ head # NullNode) =>
                 Entries' = RemoveAt(Entries, 1)
          /\ (call'.op = "del_end" /\ head # NullNode) =>
                 Entries' = RemoveAt(Entries, len) ]_vars

\* An entry was put in the middle of a list of two different entries.
C35_Witness ==
    /\ pc = "list_ready"
    /\ call.op = "add_at"
    /\ call.pos = 2
    /\ len = 3
    /\ Entries[2] = <<call.song, call.artist>>
    /\ Entries[1] # Entries[3]
    /\ Entries[1] # Entries[2]

\* C36: add_at with pos < 1 or pos > len+1, del_at with pos < 1 or
\* pos > len, and del_beg, del_end or del_at on an empty list leave the list
\* completely unchanged: same nodes, same entries in the same order, same
\* len.
C36_RejectedCallsChangeNothing ==
    [][ ( /\ pc = "list_ready"
          /\ \/ call'.op = "add_at" /\ ~AddPosValid(ThisList, call'.pos)
             \/ call'.op = "del_at" /\ (call'.pos < 1 \/ call'.pos > len)
             \/ call'.op \in {"del_beg", "del_end", "del_at"}
                /\ head = NullNode ) =>
            /\ UNCHANGED <<heap, head, len>>
            /\ Entries' = Entries ]_vars

\* del_at was called on a list with entries with a position behind its end.
C36_Witness ==
    /\ pc = "list_ready"
    /\ call.op = "del_at"
    /\ call.pos > len
    /\ len >= 2
    /\ Circular

\* C37: sortBySong and sortByArtist terminate and leave the list with the
\* same (song, artist) pairs as before, each song with its own artist, in
\* non-decreasing case-insensitive order of the sort key from head to tail,
\* with head, len and the links of the nodes unchanged.
C37_SortPermutesIntoOrder ==
    [][ (pc = "list_ready" /\ call'.op \in {"sortBySong", "sortByArtist"}) =>
            /\ \A s \in Songs, a \in Artists :
                 Count(Entries', <<s, a>>) = Count(Entries, <<s, a>>)
            /\ SortedBy(IF call'.op = "sortBySong" THEN "song" ELSE "artist",
                        Entries')
            /\ UNCHANGED <<head, len>>
            /\ \A a \in Addrs : /\ heap'[a].next = heap[a].next
                                /\ heap'[a].live = heap[a].live ]_vars

\* A list of three songs sorted by song whose order by clean name is not
\* the order of the stored paths, with two different artists.
C37_Witness ==
    /\ pc = "list_ready"
    /\ call.op = "sortBySong"
    /\ len = 3
    /\ Entries[1][1] = <<"b", "/", "a">>
    /\ Entries[3][1] = <<"B", ".", "m">>
    /\ Entries[1][2] # Entries[3][2]

\* C38: across any sequence of create, load and delete-list menu options
\* over the three playlist slots, create and load only ever write into a
\* slot that is not taken: the name and the songs of a taken slot are never
\* changed by create or load, and create with all three slots taken changes
\* no slot.
C38_CreateAndLoadSpareTakenSlots ==
    [][ (pc = "menu" /\ menu'.op \in {"create", "load"}) =>
            /\ \A k \in 1..NumSlots :
                 playlists[k].taken => playlists'[k] = playlists[k]
            /\ (menu'.op = "create"
                /\ \A k \in 1..NumSlots : playlists[k].taken) =>
                   (playlists' = playlists /\ menu'.slot = 0) ]_vars

\* Create was refused with all three slots taken, the slots holding lists
\* that were created and lists that were loaded.
C38_Witness ==
    /\ pc = "menu"
    /\ menu = [op |-> "create", slot |-> 0]
    /\ \A k \in 1..NumSlots : playlists[k].taken
    /\ \E k \in 1..NumSlots : playlists[k].listName = <<"j">>
    /\ \E k \in 1..NumSlots : playlists[k].listName = UnnamedText

====
